---- MODULE Spec2Model ----
(***************************************************************************)
(* Model of scripts/analyze_code.py: the parsers, the dead-code filter,    *)
(* the section renderers and the sequential report pipeline of             *)
(* CodeAnalyzer.                                                           *)
(*                                                                         *)
(* Python strings are modelled as sequences of one-character strings, so   *)
(* that containment, prefix, suffix, split and strip are computed and not  *)
(* assumed.                                                                *)
(***************************************************************************)
EXTENDS Integers, Sequences, FiniteSets, TLC

VARIABLES
    fn,           \* the function under evaluation ("main" during a run)
    args,         \* its arguments
    ret,          \* its outcome: Pending, [kind |-> "return", value |-> ...] or
                  \* [kind |-> "raise", exc |-> ...]
    pc,           \* the statement of main / generate_report to execute next
    env,          \* what the run finds outside: installed tools, `go list`
    results,      \* the value each finished analysis step returned, with how
                  \* its tool went
    report,       \* the parts _build_report assembled (<<>> before)
    output_file,  \* "unwritten", "written" or "failed"
    exit_status,  \* "none" while running, then "0" or "1"
    uncaught      \* the exception that left main ("none" when there is none)

harness == <<fn, args, ret>>
pipeline == <<pc, env, results, report, output_file, exit_status, uncaught>>
vars == <<fn, args, ret, pc, env, results, report, output_file, exit_status, uncaught>>

\* The pipeline variables while a single function is evaluated.
PipelineIdle ==
    /\ pc = "idle"
    /\ env = <<>>
    /\ results = <<>>
    /\ report = <<>>
    /\ output_file = "unwritten"
    /\ exit_status = "none"
    /\ uncaught = "none"

Pending == [kind |-> "pending"]
Return(v) == [kind |-> "return", value |-> v]
Raise(e) == [kind |-> "raise", exc |-> e]

(***************************************************************************)
(* Python str operations                                                   *)
(***************************************************************************)
Whitespace == {" ", "\t", "\n", "\r"}
UpperLetters == {"A", "B", "F", "T", "E"}
Digits == {"0", "1", "2", "3", "4", "5", "6", "7", "8", "9"}

Max(S) == CHOOSE x \in S : \A y \in S : y <= x
Min(S) == CHOOSE x \in S : \A y \in S : x <= y

\* str.startswith / str.endswith / `p in s`
StartsWith(s, p) == Len(p) <= Len(s) /\ SubSeq(s, 1, Len(p)) = p
EndsWith(s, p) == Len(p) <= Len(s) /\ SubSeq(s, Len(s) - Len(p) + 1, Len(s)) = p
OccursAt(s, p, i) == i + Len(p) - 1 <= Len(s) /\ SubSeq(s, i, i + Len(p) - 1) = p
Contains(s, p) == \E i \in 1..(Len(s) - Len(p) + 1) : OccursAt(s, p, i)

\* str.isupper() of a one-character string
IsUpper(c) == c \in UpperLetters

\* str.strip() / str.lstrip(chars)
RECURSIVE LStripChars(_, _)
LStripChars(s, cs) ==
    IF s # <<>> /\ Head(s) \in cs THEN LStripChars(Tail(s), cs) ELSE s
RECURSIVE RStripChars(_, _)
RStripChars(s, cs) ==
    IF s # <<>> /\ s[Len(s)] \in cs
    THEN RStripChars(SubSeq(s, 1, Len(s) - 1), cs) ELSE s
Strip(s) == RStripChars(LStripChars(s, Whitespace), Whitespace)

\* str.split(sep) for a non-empty separator: the parts between the
\* non-overlapping occurrences of sep, scanning from the left.
RECURSIVE SplitFrom(_, _, _, _)
SplitFrom(s, sep, i, cur) ==
    IF i > Len(s) THEN <<cur>>
    ELSE IF OccursAt(s, sep, i)
         THEN <<cur>> \o SplitFrom(s, sep, i + Len(sep), <<>>)
         ELSE SplitFrom(s, sep, i + 1, Append(cur, s[i]))
Split(s, sep) == SplitFrom(s, sep, 1, <<>>)

\* str.split() without arguments: the maximal runs of non-whitespace.
RECURSIVE SplitWsFrom(_, _, _)
SplitWsFrom(s, i, cur) ==
    IF i > Len(s) THEN (IF cur = <<>> THEN <<>> ELSE <<cur>>)
    ELSE IF s[i] \in Whitespace
         THEN (IF cur = <<>> THEN <<>> ELSE <<cur>>) \o SplitWsFrom(s, i + 1, <<>>)
         ELSE SplitWsFrom(s, i + 1, Append(cur, s[i]))
SplitWs(s) == SplitWsFrom(s, 1, <<>>)

RECURSIVE Concat(_)
Concat(ss) == IF ss = <<>> THEN <<>> ELSE Head(ss) \o Concat(Tail(ss))

\* The sequences over S of length at most n.
SeqUpTo(S, n) == UNION {[1..k -> S] : k \in 0..n}

(***************************************************************************)
(* AnalysisConfig: the dead-code part of the configuration                 *)
(***************************************************************************)
StrDemo == <<"d", "e", "m", "o", "/">>
StrInterfacesGo == <<"i", "n", "t", "e", "r", "f", "a", "c", "e", "s", ".", "g", "o">>
StrUnreachable ==
    <<"u", "n", "r", "e", "a", "c", "h", "a", "b", "l", "e", " ", "f", "u", "n", "c", ":">>

DefaultDeadcodeConfig ==
    [deadcode_exclude_files |-> <<StrDemo, StrInterfacesGo>>,
     deadcode_exclude_functions |-> <<>>,
     deadcode_exclude_public_interfaces |-> TRUE]

(***************************************************************************)
(* CodeAnalyzer._filter_deadcode_results                                   *)
(***************************************************************************)
\* for exclude_pattern in ...: if pattern in file_path or
\* file_path.startswith(pattern): should_skip_file = True; break
RECURSIVE ShouldSkipFile(_, _)
ShouldSkipFile(file_path, patterns) ==
    IF patterns = <<>> THEN FALSE
    ELSE IF Contains(file_path, Head(patterns)) \/ StartsWith(file_path, Head(patterns))
         THEN TRUE
         ELSE ShouldSkipFile(file_path, Tail(patterns))

RECURSIVE ShouldSkipFunc(_, _)
ShouldSkipFunc(message, funcs) ==
    IF funcs = <<>> THEN FALSE
    ELSE IF Contains(message, Head(funcs)) THEN TRUE
         ELSE ShouldSkipFunc(message, Tail(funcs))

\* The mutated extraction takes the part before the first "." instead of the
\* part after the last one.
FuncNameFirstPart(message) ==
    LET func_part == Strip(Split(message, StrUnreachable)[2])
    IN  IF Contains(func_part, <<".">>)
        THEN Split(func_part, <<".">>)[1]
        ELSE func_part

\* func_part = message.split('unreachable func:')[1].strip();
\* func_name = func_part.split('.')[-1] if '.' in func_part else func_part
FuncName(message) ==
    LET func_part == Strip(Split(message, StrUnreachable)[2])
    IN  IF Contains(func_part, <<".">>)
        THEN LET parts == Split(func_part, <<".">>) IN parts[Len(parts)]
        ELSE func_part

IsPublicInterfaceFunc(item, config) ==
    /\ config.deadcode_exclude_public_interfaces
    /\ EndsWith(item.file, StrInterfacesGo)
    /\ Contains(item.message, StrUnreachable)
    /\ LET func_name == FuncName(item.message)
       IN  func_name # <<>> /\ IsUpper(func_name[1])

RECURSIVE FilterDeadcodeResults(_, _)
FilterDeadcodeResults(dead_code_items, config) ==
    IF dead_code_items = <<>> THEN <<>>
    ELSE LET item == Head(dead_code_items)
             rest == FilterDeadcodeResults(Tail(dead_code_items), config)
         IN  IF ShouldSkipFile(item.file, config.deadcode_exclude_files) THEN rest
             ELSE IF ShouldSkipFunc(item.message, config.deadcode_exclude_functions)
                  THEN rest
             ELSE IF IsPublicInterfaceFunc(item, config) THEN rest
             ELSE <<item>> \o rest

(***************************************************************************)
(* Inputs of the dead-code filter                                          *)
(***************************************************************************)
MaxItems == 2

StrFooBar == <<"F", "o", "o", ".", "B", "a", "r">>
StrFoobar == <<"F", "o", "o", ".", "b", "a", "r">>
StrBar == <<"B", "a", "r">>
StrLowerBar == <<"b", "a", "r">>

DeadcodeFiles ==
    {StrInterfacesGo,
     <<"p", "/">> \o StrInterfacesGo,
     StrDemo \o <<"x", ".", "g", "o">>,
     <<"x", ".", "g", "o">>}

DeadcodeMessages ==
    {StrUnreachable \o <<" ">> \o StrFooBar,
     StrUnreachable \o <<" ">> \o StrFoobar,
     StrUnreachable \o <<" ">> \o StrBar,
     StrUnreachable \o <<" ">> \o StrLowerBar,
     StrUnreachable \o StrFoobar \o <<".", "B", " ">>,
     StrUnreachable \o <<" ">> \o <<"F", ".">>,
     StrUnreachable,
     <<"u", "n", "u", "s", "e", "d", " ">> \o StrFooBar}

DeadcodeItems ==
    [file : DeadcodeFiles, line : {<<"3">>}, col : {<<"1">>}, message : DeadcodeMessages]

DeadcodeConfigs ==
    [deadcode_exclude_files :
         {<<StrDemo, StrInterfacesGo>>, <<StrDemo>>, <<>>, <<<<"p", "/">>>>},
     deadcode_exclude_functions : {<<>>, <<StrLowerBar>>},
     deadcode_exclude_public_interfaces : BOOLEAN]

InitDeadcode ==
    /\ PipelineIdle
    /\ fn = "_filter_deadcode_results"
    /\ args \in [dead_code_items : SeqUpTo(DeadcodeItems, MaxItems),
                 config : DeadcodeConfigs]
    /\ ret = Pending

CallFilterDeadcode ==
    /\ fn = "_filter_deadcode_results"
    /\ ret = Pending
    /\ ret' = Return(FilterDeadcodeResults(args.dead_code_items, args.config))
    /\ UNCHANGED <<fn, args, pipeline>>

NextDeadcode == CallFilterDeadcode

SpecDeadcode == InitDeadcode /\ [][NextDeadcode]_vars

(***************************************************************************)
(* The three suppression rules as the specification words them             *)
(***************************************************************************)
InSeq(x, s) == \E i \in 1..Len(s) : s[i] = x

\* Rule 1: the file path contains or starts with a configured pattern.
DroppedByFileRule(item, config) ==
    \E k \in 1..Len(config.deadcode_exclude_files) :
        LET p == config.deadcode_exclude_files[k]
        IN  Contains(item.file, p) \/ StartsWith(item.file, p)

\* Rule 2: the message contains a configured excluded-function substring.
DroppedByFunctionRule(item, config) ==
    \E k \in 1..Len(config.deadcode_exclude_functions) :
        Contains(item.message, config.deadcode_exclude_functions[k])

\* The text that follows the marker phrase, without surrounding whitespace.
AfterMarker(message) ==
    LET at == Min({i \in 1..Len(message) : OccursAt(message, StrUnreachable, i)})
    IN  Strip(SubSeq(message, at + Len(StrUnreachable), Len(message)))

\* The identifier after the last "." (the whole identifier without a ".").
TrailingIdentifier(ident) ==
    LET dots == {i \in 1..Len(ident) : ident[i] = "."}
    IN  IF dots = {} THEN ident ELSE SubSeq(ident, Max(dots) + 1, Len(ident))

\* Rule 3: toggle on, interfaces file, marker phrase, upper-case identifier.
DroppedByPublicRule(item, config) ==
    /\ config.deadcode_exclude_public_interfaces
    /\ EndsWith(item.file, StrInterfacesGo)
    /\ Contains(item.message, StrUnreachable)
    /\ LET name == TrailingIdentifier(AfterMarker(item.message))
       IN  name # <<>> /\ name[1] \in UpperLetters

PassesAllRules(item, config) ==
    /\ ~DroppedByFileRule(item, config)
    /\ ~DroppedByFunctionRule(item, config)
    /\ ~DroppedByPublicRule(item, config)

RECURSIVE Subsequence(_, _)
Subsequence(s, config) ==
    IF s = <<>> THEN <<>>
    ELSE IF PassesAllRules(Head(s), config)
         THEN <<Head(s)>> \o Subsequence(Tail(s), config)
         ELSE Subsequence(Tail(s), config)

ItemUpper ==
    [file |-> StrInterfacesGo, line |-> <<"3">>, col |-> <<"1">>,
     message |-> StrUnreachable \o <<" ">> \o StrFooBar]
ItemLower ==
    [file |-> StrInterfacesGo, line |-> <<"3">>, col |-> <<"1">>,
     message |-> StrUnreachable \o <<" ">> \o StrFoobar]

DeadcodeReturned == fn = "_filter_deadcode_results" /\ ret.kind = "return"

\* C4: under the default configuration the entry in "interfaces.go" with
\* message "unreachable func: Foo.Bar" is absent from the output of
\* _filter_deadcode_results and the entry with message
\* "unreachable func: Foo.bar" is present in it.
C4_DefaultConfigKeepsLowerCase ==
    (DeadcodeReturned /\ args.config = DefaultDeadcodeConfig) =>
        /\ InSeq(ItemUpper, args.dead_code_items) => ~InSeq(ItemUpper, ret.value)
        /\ InSeq(ItemLower, args.dead_code_items) => InSeq(ItemLower, ret.value)

\* C5: for every input list and configuration the output of
\* _filter_deadcode_results is the subsequence of the input, in the original
\* order and with the entries unchanged, of exactly the entries that none of
\* the three rules drops.
C5_FilterIsSubsequenceOfUndropped ==
    DeadcodeReturned =>
        ret.value = Subsequence(args.dead_code_items, args.config)

\* A run in which the first entry is dropped by the public-interface rule
\* alone and the second, a lower-case method of the same file, is kept.
C5_Witness ==
    /\ DeadcodeReturned
    /\ Len(args.dead_code_items) = 2
    /\ args.dead_code_items[1].message = StrUnreachable \o <<" ">> \o StrFooBar
    /\ ~DroppedByFileRule(args.dead_code_items[1], args.config)
    /\ ~DroppedByFunctionRule(args.dead_code_items[1], args.config)
    /\ ret.value = <<args.dead_code_items[2]>>
    /\ args.dead_code_items[2].message = StrUnreachable \o <<" ">> \o StrFoobar
    /\ EndsWith(args.dead_code_items[2].file, StrInterfacesGo)

(***************************************************************************)
(* Python values decoded by json.loads, tagged with their type             *)
(***************************************************************************)
\* Every value carries the same fields: n for an int, s for the characters of
\* a str, xs for the elements of a list, kv for the <<key, value>> items of a
\* dict (keys being str).
PyValue(t, n, s, xs, kv) == [t |-> t, n |-> n, s |-> s, xs |-> xs, kv |-> kv]
PyNone == PyValue("NoneType", 0, <<>>, <<>>, <<>>)
PyInt(n) == PyValue("int", n, <<>>, <<>>, <<>>)
PyStr(cs) == PyValue("str", 0, cs, <<>>, <<>>)
PyList(xs) == PyValue("list", 0, <<>>, xs, <<>>)
PyDict(items) == PyValue("dict", 0, <<>>, <<>>, items)

HasKey(d, key) == \E i \in 1..Len(d.kv) : d.kv[i][1] = key
\* dict.get(key, default)
DictGet(d, key, default) ==
    IF HasKey(d, key)
    THEN d.kv[CHOOSE i \in 1..Len(d.kv) : d.kv[i][1] = key][2]
    ELSE default

DigitChars == <<"0", "1", "2", "3", "4", "5", "6", "7", "8", "9">>
DigitValue(c) == (CHOOSE i \in 1..Len(DigitChars) : DigitChars[i] = c) - 1
IsDigits(cs) == cs # <<>> /\ \A i \in 1..Len(cs) : cs[i] \in Digits
RECURSIVE DigitsToInt(_)
DigitsToInt(cs) ==
    IF cs = <<>> THEN 0
    ELSE 10 * DigitsToInt(SubSeq(cs, 1, Len(cs) - 1)) + DigitValue(cs[Len(cs)])

\* int(x): an int is itself, a str of decimal digits is its value, any other
\* str raises ValueError, None, list and dict raise TypeError.
IntOf(x) ==
    CASE x.t = "int" -> Return(x.n)
      [] x.t = "str" -> IF IsDigits(Strip(x.s))
                        THEN Return(DigitsToInt(Strip(x.s)))
                        ELSE Raise("ValueError")
      [] OTHER -> Raise("TypeError")

\* `'Issues' in data`: key membership for a dict, element membership for a
\* list, substring for a str, TypeError for None and numbers.
StrIssues == <<"I", "s", "s", "u", "e", "s">>
StrFile == <<"f", "i", "l", "e">>
StrLine == <<"l", "i", "n", "e">>
StrSeverity == <<"s", "e", "v", "e", "r", "i", "t", "y">>
StrConfidence == <<"c", "o", "n", "f", "i", "d", "e", "n", "c", "e">>
StrRuleId == <<"r", "u", "l", "e", "_", "i", "d">>
StrDetails == <<"d", "e", "t", "a", "i", "l", "s">>
StrUNKNOWN == <<"U", "N", "K", "N", "O", "W", "N">>

InOperator(key, data) ==
    CASE data.t = "dict" -> Return(HasKey(data, key))
      [] data.t = "list" -> Return(\E i \in 1..Len(data.xs) : data.xs[i] = PyStr(key))
      [] data.t = "str" -> Return(Contains(data.s, key))
      [] OTHER -> Raise("TypeError")

\* data['Issues'], reached only when `'Issues' in data` was true: a list or a
\* str cannot be indexed by a str.
Subscript(data, key) ==
    IF data.t = "dict" THEN Return(DictGet(data, key, PyNone)) ELSE Raise("TypeError")

\* The values `for issue in x` iterates over: the elements of a list, the
\* keys of a dict, the characters of a str; anything else is not iterable.
Iterate(x) ==
    CASE x.t = "list" -> Return(x.xs)
      [] x.t = "dict" -> Return([i \in 1..Len(x.kv) |-> PyStr(x.kv[i][1])])
      [] x.t = "str" -> Return([i \in 1..Len(x.s) |-> PyStr(<<x.s[i]>>)])
      [] OTHER -> Raise("TypeError")

(***************************************************************************)
(* CodeAnalyzer._parse_gosec_output                                        *)
(***************************************************************************)
\* file_path[len(project_root):].lstrip('/') when the path is absolute and
\* starts with the text of the project root
RelativeFile(file_path, project_root) ==
    IF StartsWith(file_path, <<"/">>) /\ StartsWith(file_path, project_root)
    THEN LStripChars(SubSeq(file_path, Len(project_root) + 1, Len(file_path)), {"/"})
    ELSE file_path

\* The body of the loop for one issue: the SecurityIssue, or the exception.
ParseIssue(issue, project_root) ==
    IF issue.t # "dict" THEN Raise("AttributeError")   \* issue.get
    ELSE LET file_path == DictGet(issue, StrFile, PyStr(<<>>))
         IN  IF file_path.t # "str" THEN Raise("AttributeError")   \* .startswith
             ELSE LET line == IntOf(DictGet(issue, StrLine, PyInt(0)))
                  IN  IF line.kind = "raise" THEN line
                      ELSE Return(
                          [severity |-> DictGet(issue, StrSeverity, PyStr(StrUNKNOWN)),
                           confidence |-> DictGet(issue, StrConfidence, PyStr(StrUNKNOWN)),
                           rule |-> DictGet(issue, StrRuleId, PyStr(<<>>)),
                           details |-> DictGet(issue, StrDetails, PyStr(<<>>)),
                           file |-> RelativeFile(file_path.s, project_root),
                           line |-> line.value])

\* for issue in data['Issues']: ... issues.append(...), left at the first
\* exception: the handler of (JSONDecodeError, KeyError, ValueError) returns
\* the issues appended so far, any other exception propagates.
RECURSIVE ParseIssues(_, _, _)
ParseIssues(todo, project_root, issues) ==
    IF todo = <<>> THEN Return(issues)
    ELSE LET one == ParseIssue(Head(todo), project_root)
         IN  IF one.kind = "raise"
             THEN (IF one.exc \in {"JSONDecodeError", "KeyError", "ValueError"}
                   THEN Return(issues) ELSE one)
             ELSE ParseIssues(Tail(todo), project_root, Append(issues, one.value))

\* json.loads(output): the stdout text is either a JSON document of a
\* decoded value or a text json rejects.
JsonLoads(output) ==
    IF output.is_json THEN Return(output.value) ELSE Raise("JSONDecodeError")

ParseGosecOutput(output, project_root) ==
    LET data == JsonLoads(output)
    IN  IF data.kind = "raise" THEN Return(<<>>)
        ELSE LET has == InOperator(StrIssues, data.value)
             IN  IF has.kind = "raise" THEN has
                 ELSE IF ~has.value THEN Return(<<>>)
                 ELSE LET list == Subscript(data.value, StrIssues)
                      IN  IF list.kind = "raise" THEN list
                          ELSE LET todo == Iterate(list.value)
                               IN  IF todo.kind = "raise" THEN todo
                                   ELSE ParseIssues(todo.value, project_root, <<>>)

(***************************************************************************)
(* Inputs of the security parser                                           *)
(***************************************************************************)
MaxIssues == 2

ProjectRoot == <<"/", "r">>
StrHIGH == <<"H", "I", "G", "H">>
StrAGo == <<"a", ".", "g", "o">>

GosecFileValues ==
    {PyStr(ProjectRoot \o <<"/">> \o StrAGo), PyStr(ProjectRoot \o <<"x", "/">> \o StrAGo),
     PyStr(StrAGo), PyNone, PyInt(3)}
GosecLineValues == {PyInt(7), PyStr(<<"1", "2">>), PyStr(<<"x">>), PyNone}

\* An issue object with any subset of the file, line and severity keys.
GosecIssueObjects ==
    {PyDict(f \o l \o s) :
        f \in {<<>>} \cup {<<<<StrFile, x>>>> : x \in GosecFileValues},
        l \in {<<>>} \cup {<<<<StrLine, x>>>> : x \in GosecLineValues},
        s \in {<<>>, <<<<StrSeverity, PyStr(StrHIGH)>>>>}}

GosecIssueElements == GosecIssueObjects \cup {PyNone, PyInt(1), PyStr(StrFile)}

GosecIssuesValues ==
    {PyList(xs) : xs \in SeqUpTo(GosecIssueElements, MaxIssues)}
        \cup {PyNone, PyInt(0), PyStr(<<>>), PyStr(StrAGo), PyDict(<<>>),
              PyDict(<<<<StrFile, PyStr(StrAGo)>>>>)}

GosecDocuments ==
    {PyDict(<<<<StrIssues, x>>>>) : x \in GosecIssuesValues}
        \cup {PyDict(<<>>), PyDict(<<<<StrFile, PyNone>>>>),
              PyList(<<>>), PyList(<<PyStr(StrIssues)>>),
              PyStr(StrIssues \o <<"!">>), PyStr(StrAGo), PyInt(5), PyNone}

GosecOutputs ==
    {[is_json |-> TRUE, value |-> d] : d \in GosecDocuments}
        \cup {[is_json |-> FALSE, value |-> PyNone]}

InitGosec ==
    /\ PipelineIdle
    /\ fn = "_parse_gosec_output"
    /\ args \in [output : GosecOutputs, project_root : {ProjectRoot}]
    /\ ret = Pending

CallParseGosec ==
    /\ fn = "_parse_gosec_output"
    /\ ret = Pending
    /\ ret' = ParseGosecOutput(args.output, args.project_root)
    /\ UNCHANGED <<fn, args, pipeline>>

NextGosec == CallParseGosec

SpecGosec == InitGosec /\ [][NextGosec]_vars

\* C1: _parse_gosec_output is total: for every input text it returns a list
\* of SecurityIssue and raises nothing past its own boundary.
C1_GosecParserIsTotal ==
    (fn = "_parse_gosec_output" /\ ret # Pending) => ret.kind = "return"

(***************************************************************************)
(* re.match for the patterns of the parsers                                *)
(*                                                                         *)
(* A pattern is a sequence of atoms.  An atom is a character class taken   *)
(* once, one or more times (`+`, greedy, or `+?`, lazy) or zero or more    *)
(* times (`*`), with a capture group number (0 for none); or an optional   *)
(* group `(?:...)?` of atoms.  Matching is the backtracking search of      *)
(* Python's re: a greedy atom first takes the longest run and gives        *)
(* characters back one at a time, a lazy atom first takes the shortest,    *)
(* an optional group is first tried present, and the first complete match  *)
(* wins.  The pattern is anchored at both ends.                            *)
(***************************************************************************)
InClass(c, cls) ==
    CASE cls = "digit" -> c \in Digits
      [] cls = "space" -> c \in Whitespace
      [] cls = "nonspace" -> c \notin Whitespace
      [] cls = "any" -> c # "\n"
      [] cls = "colon" -> c = ":"
      [] cls = "blank" -> c = " "
      [] cls = "lparen" -> c = "("
      [] cls = "rparen" -> c = ")"
      [] cls = "nonrparen" -> c # ")"
      [] cls = "digitdot" -> c \in Digits \cup {"."}

Atom(cls, plus, grp) ==
    [cls |-> cls, plus |-> plus, grp |-> grp, lazy |-> FALSE, least |-> 1, opt |-> <<>>]
LazyPlus(cls, grp) ==
    [cls |-> cls, plus |-> TRUE, grp |-> grp, lazy |-> TRUE, least |-> 1, opt |-> <<>>]
Star(cls) ==
    [cls |-> cls, plus |-> TRUE, grp |-> 0, lazy |-> FALSE, least |-> 0, opt |-> <<>>]
Optional(atoms) ==
    [cls |-> "group", plus |-> FALSE, grp |-> 0, lazy |-> FALSE, least |-> 0, opt |-> atoms]

NoMatch == [ok |-> FALSE, g |-> <<>>]
MaxGroups == 5
EmptyGroups == [i \in 1..MaxGroups |-> <<>>]

\* The length of the run of characters of class cls that starts at pos.
RECURSIVE RunLength(_, _, _)
RunLength(line, pos, cls) ==
    IF pos <= Len(line) /\ InClass(line[pos], cls)
    THEN 1 + RunLength(line, pos + 1, cls) ELSE 0

RECURSIVE MatchFrom(_, _, _, _)
RECURSIVE TryLength(_, _, _, _, _, _)
MatchFrom(atoms, line, pos, groups) ==
    IF atoms = <<>>
    THEN (IF pos = Len(line) + 1 THEN [ok |-> TRUE, g |-> groups] ELSE NoMatch)
    ELSE LET a == Head(atoms)
         IN  IF a.opt # <<>>
             THEN LET present == MatchFrom(a.opt \o Tail(atoms), line, pos, groups)
                  IN  IF present.ok THEN present
                      ELSE MatchFrom(Tail(atoms), line, pos, groups)
             ELSE LET run == RunLength(line, pos, a.cls)
                      most == IF a.plus THEN run ELSE Min({run, 1})
                  IN  IF most < a.least THEN NoMatch
                      ELSE TryLength(atoms, line, pos, groups,
                                     IF a.lazy THEN a.least ELSE most, most)
\* The atom takes n characters; on failure of the rest a greedy atom retries
\* with n - 1 down to its least count, a lazy atom with n + 1 up to most.
TryLength(atoms, line, pos, groups, n, most) ==
    LET a == Head(atoms)
    IN  IF n < a.least \/ n > most THEN NoMatch
        ELSE LET taken == IF a.grp = 0 THEN groups
                          ELSE [groups EXCEPT ![a.grp] = SubSeq(line, pos, pos + n - 1)]
                 rest == MatchFrom(Tail(atoms), line, pos + n, taken)
             IN  IF rest.ok THEN rest
                 ELSE TryLength(atoms, line, pos, groups,
                                IF a.lazy THEN n + 1 ELSE n - 1, most)

ReMatch(pattern, line) == MatchFrom(pattern, line, 1, EmptyGroups)

\* r'^(\d+)\s+(\S+)\s+(\S+)\s+(.+):(\d+):\d+$'
GocycloPattern ==
    <<Atom("digit", TRUE, 1), Atom("space", TRUE, 0), Atom("nonspace", TRUE, 2),
      Atom("space", TRUE, 0), Atom("nonspace", TRUE, 3), Atom("space", TRUE, 0),
      Atom("any", TRUE, 4), Atom("colon", FALSE, 0), Atom("digit", TRUE, 5),
      Atom("colon", FALSE, 0), Atom("digit", TRUE, 0)>>

\* r'^(\d+)\s+(\S+)\s+(\S+)\s+(.+):(\d+)$'
GocognitPattern ==
    <<Atom("digit", TRUE, 1), Atom("space", TRUE, 0), Atom("nonspace", TRUE, 2),
      Atom("space", TRUE, 0), Atom("nonspace", TRUE, 3), Atom("space", TRUE, 0),
      Atom("any", TRUE, 4), Atom("colon", FALSE, 0), Atom("digit", TRUE, 5)>>

(***************************************************************************)
(* CodeAnalyzer._parse_complexity_output and _parse_gocognit_output        *)
(***************************************************************************)
\* output.strip().split('\n')
OutputLines(output) == Split(Strip(output), <<"\n">>)

\* The body of the loop: the entries list after one more line.
ComplexityLine(entries, line, pattern) ==
    IF Strip(line) = <<>> THEN entries
    ELSE LET match == ReMatch(pattern, line)
         IN  IF match.ok
             THEN Append(entries,
                         [complexity |-> DigitsToInt(match.g[1]),
                          package |-> match.g[2],
                          function |-> match.g[3],
                          file |-> match.g[4],
                          line |-> DigitsToInt(match.g[5])])
             ELSE entries

RECURSIVE ComplexityLoop(_, _, _)
ComplexityLoop(lines, entries, pattern) ==
    IF lines = <<>> THEN entries
    ELSE ComplexityLoop(Tail(lines), ComplexityLine(entries, Head(lines), pattern), pattern)

\* The entries in the order of their lines, before the sort.
ComplexityEntries(output, pattern) == ComplexityLoop(OutputLines(output), <<>>, pattern)

\* The mutated insertion puts an entry before the entries of equal
\* complexity, as an unstable sort may.
InsertBeforeEquals(sorted, e) ==
    LET before == {i \in 1..Len(sorted) : sorted[i].complexity > e.complexity}
        k == IF before = {} THEN 0 ELSE Max(before)
    IN  SubSeq(sorted, 1, k) \o <<e>> \o SubSeq(sorted, k + 1, Len(sorted))

\* One step of the stable descending sort: e goes after every entry whose
\* key is not smaller than its own.
InsertDescending(sorted, e) ==
    LET before == {i \in 1..Len(sorted) : sorted[i].complexity >= e.complexity}
        k == IF before = {} THEN 0 ELSE Max(before)
    IN  SubSeq(sorted, 1, k) \o <<e>> \o SubSeq(sorted, k + 1, Len(sorted))

\* sorted(entries, key=lambda x: x.complexity, reverse=True)
RECURSIVE SortLoop(_, _)
SortLoop(entries, sorted) ==
    IF entries = <<>> THEN sorted
    ELSE SortLoop(Tail(entries), InsertDescending(sorted, Head(entries)))
SortedByComplexity(entries) == SortLoop(entries, <<>>)

ParseComplexityOutput(output) ==
    SortedByComplexity(ComplexityEntries(output, GocycloPattern))

ParseGocognitOutput(output) ==
    SortedByComplexity(ComplexityEntries(output, GocognitPattern))

(***************************************************************************)
(* Inputs of the complexity parsers                                        *)
(***************************************************************************)
MaxLines == 3

RECURSIVE JoinLines(_)
JoinLines(lines) ==
    IF lines = <<>> THEN <<>>
    ELSE IF Len(lines) = 1 THEN Head(lines)
    ELSE Head(lines) \o <<"\n">> \o JoinLines(Tail(lines))

LocationWithColumn == <<" ">> \o StrAGo \o <<":", "3", ":", "1">>
LocationWithoutColumn == <<" ">> \o StrAGo \o <<":", "3">>

ComplexityInputLines ==
    {<<"5", " ", "p", " ", "f">> \o LocationWithColumn,
     <<"1", "0", " ", "p", " ", "f">> \o LocationWithColumn,
     <<"2", "6", " ", "p", " ", "f">> \o LocationWithColumn,
     <<"2", "6", " ", "p", " ", "g">> \o LocationWithColumn,
     <<"2", "6", " ", "p", " ", "f">> \o LocationWithoutColumn,
     <<"1", "0", " ", "p", " ", "g">> \o LocationWithoutColumn,
     <<" ", "5", " ", "p", " ", "f">> \o LocationWithColumn,
     <<"o", "k">>}

ComplexityOutputs == {JoinLines(ls) : ls \in SeqUpTo(ComplexityInputLines, MaxLines)}

InitComplexity ==
    /\ PipelineIdle
    /\ fn \in {"_parse_complexity_output", "_parse_gocognit_output"}
    /\ args \in [output : ComplexityOutputs]
    /\ ret = Pending

CallParseComplexity ==
    /\ fn = "_parse_complexity_output"
    /\ ret = Pending
    /\ ret' = Return(ParseComplexityOutput(args.output))
    /\ UNCHANGED <<fn, args, pipeline>>

CallParseGocognit ==
    /\ fn = "_parse_gocognit_output"
    /\ ret = Pending
    /\ ret' = Return(ParseGocognitOutput(args.output))
    /\ UNCHANGED <<fn, args, pipeline>>

NextComplexity == CallParseComplexity \/ CallParseGocognit

SpecComplexity == InitComplexity /\ [][NextComplexity]_vars

ComplexityReturned ==
    fn \in {"_parse_complexity_output", "_parse_gocognit_output"} /\ ret.kind = "return"

\* The entries of the matching lines, in line order, of the parser called.
EntriesInLineOrder ==
    ComplexityEntries(args.output,
                      IF fn = "_parse_complexity_output"
                      THEN GocycloPattern ELSE GocognitPattern)

WithComplexity(entries, c) == SelectSeq(entries, LAMBDA e : e.complexity = c)

\* C3: the list returned by the cyclomatic and the cognitive parser is a
\* permutation of the entries of the matching lines, in descending order of
\* complexity, entries of equal complexity keeping the order of their lines.
C3_SortIsDescendingAndStable ==
    ComplexityReturned =>
        LET parsed == EntriesInLineOrder
        IN  /\ Len(ret.value) = Len(parsed)
            /\ \A i \in 1..(Len(ret.value) - 1) :
                   ret.value[i].complexity >= ret.value[i + 1].complexity
            /\ \A c \in {parsed[i].complexity : i \in 1..Len(parsed)} :
                   WithComplexity(ret.value, c) = WithComplexity(parsed, c)

\* Lines of complexity 10, 26, 26 with different functions come back as the
\* first-seen 26, the second-seen 26, then the 10.
C3_Witness ==
    /\ ComplexityReturned
    /\ LET parsed == EntriesInLineOrder
       IN  /\ Len(parsed) = 3
           /\ parsed[1].complexity = 10
           /\ parsed[2].complexity = 26
           /\ parsed[3].complexity = 26
           /\ parsed[2] # parsed[3]
           /\ ret.value = <<parsed[2], parsed[3], parsed[1]>>

(***************************************************************************)
(* Rendered report lines                                                   *)
(*                                                                         *)
(* A builder returns the list `sections` it joins with newlines.  Each     *)
(* element is modelled by its kind, its fixed text and, for a table row,   *)
(* the values interpolated into its cells:                                 *)
(*   heading      a "##" or "###" title                                    *)
(*   thead, tsep  the two header lines of a markdown table                 *)
(*   row          a table row rendered from one entry                      *)
(*   placeholder  a table row of dashes that stands for "no data"          *)
(*   total        the totals row of the package table                      *)
(*   allclear     a sentence that starts with the check-mark emoji         *)
(*   warning      a sentence that starts with the warning emoji            *)
(*   code, note, text, bullet, blank                                       *)
(***************************************************************************)
Line(k, text) == [k |-> k, text |-> text, cells |-> <<>>]
Row(cells) == [k |-> "row", text |-> "", cells |-> cells]
Blank == Line("blank", "")

\* seq[:n] for n >= 0 and for n < 0
Slice(seq, n) ==
    IF n >= 0 THEN SubSeq(seq, 1, IF n < Len(seq) THEN n ELSE Len(seq))
    ELSE SubSeq(seq, 1, Len(seq) + n)

\* _get_complexity_emoji
GetComplexityEmoji(complexity) ==
    IF complexity <= 10 THEN "check"
    ELSE IF complexity <= 15 THEN "warning"
    ELSE IF complexity <= 25 THEN "orange_diamond"
    ELSE "red_circle"

\* The priority scale with each boundary one too high.
GetPriorityLevelExclusive(complexity) ==
    IF complexity > 26 THEN "red_circle Critical"
    ELSE IF complexity > 21 THEN "orange_diamond High"
    ELSE IF complexity > 16 THEN "warning Medium"
    ELSE "check Low"

\* _get_priority_level
GetPriorityLevel(complexity) ==
    IF complexity >= 26 THEN "red_circle Critical"
    ELSE IF complexity >= 21 THEN "orange_diamond High"
    ELSE IF complexity >= 16 THEN "warning Medium"
    ELSE "check Low"

\* The icon expression written with >= where the code has >.
CognitiveIconInclusive(complexity) ==
    IF complexity >= 25 THEN "red_circle"
    ELSE IF complexity >= 15 THEN "orange_diamond"
    ELSE IF complexity >= 10 THEN "warning"
    ELSE "check"

\* The icon expression of _build_cognitive_complexity_section
CognitiveIcon(complexity) ==
    IF complexity > 25 THEN "red_circle"
    ELSE IF complexity > 15 THEN "orange_diamond"
    ELSE IF complexity > 10 THEN "warning"
    ELSE "check"

ComplexityRow(entry, icon) ==
    Row([icon |-> icon, complexity |-> entry.complexity, package |-> entry.package,
         function |-> entry.function, file |-> entry.file, line |-> entry.line,
         priority |-> ""])

PriorityRow(entry) ==
    Row([icon |-> GetComplexityEmoji(entry.complexity), complexity |-> entry.complexity,
         package |-> entry.package, function |-> entry.function, file |-> entry.file,
         line |-> entry.line, priority |-> GetPriorityLevel(entry.complexity)])

\* The mutated selection looks for high complexity in the top-N list only.
HighComplexityOfTop(complexity_data, config) ==
    SelectSeq(Slice(complexity_data, config.top_functions),
              LAMBDA e : e.complexity > config.complexity_threshold)

\* [e for e in complexity_data if e.complexity > self.config.complexity_threshold]
HighComplexity(complexity_data, config) ==
    SelectSeq(complexity_data, LAMBDA e : e.complexity > config.complexity_threshold)

AttentionHeading == Line("heading", "### Functions Requiring Attention (Complexity > 15)")

\* _build_complexity_section
BuildComplexitySection(complexity_data, config) ==
    LET top_functions == Slice(complexity_data, config.top_functions)
        high_complexity == HighComplexity(complexity_data, config)
    IN  <<Line("thead", "| Complexity | Package | Function | File | Line |"),
          Line("tsep", "")>>
        \o (IF top_functions # <<>>
            THEN [i \in 1..Len(top_functions) |->
                     ComplexityRow(top_functions[i],
                                   GetComplexityEmoji(top_functions[i].complexity))]
            ELSE <<Line("placeholder", "| - | - | No complexity data available | - | - |")>>)
        \o <<AttentionHeading>>
        \o (IF high_complexity # <<>>
            THEN <<Line("thead", "| Complexity | Package | Function | File | Line | Priority |"),
                   Line("tsep", "")>>
                 \o [i \in 1..Len(high_complexity) |-> PriorityRow(high_complexity[i])]
            ELSE <<Line("allclear", "**No high-complexity functions found** - All functions are below the complexity threshold!")>>)

\* _build_cognitive_complexity_section
BuildCognitiveComplexitySection(cognitive_complexity) ==
    <<Line("heading", "## Cognitive Complexity Analysis"), Blank,
      Line("heading", "### Top 10 Most Cognitively Complex Functions"), Blank>>
    \o (IF cognitive_complexity # <<>>
        THEN <<Line("thead", "| Complexity | Package | Function | File | Line |"),
               Line("tsep", "")>>
             \o LET shown == Slice(cognitive_complexity, 10)
                IN  [i \in 1..Len(shown) |->
                        ComplexityRow(shown[i], CognitiveIcon(shown[i].complexity))]
        ELSE <<Line("allclear", "**No complex functions found** - All functions have low cognitive complexity!")>>)
    \o <<Blank, Blank>>

\* _build_static_analysis_section; static_analysis is the dict of
\* get_static_analysis, error being <<>> for None
BuildStaticAnalysisSection(static_analysis) ==
    <<Line("heading", "## Static Analysis Results")>>
    \o (IF static_analysis.error # <<>>
        THEN <<Line("heading", "### Configuration Issues"),
               Line("warning", "**Warning**: There were issues running static analysis:"),
               [k |-> "code", text |-> "", cells |-> [error |-> static_analysis.error]]>>
        ELSE <<>>)
    \o (IF static_analysis.issues # <<>>
        THEN <<Line("heading", "### Code Quality Issues"),
               Line("thead", "| File | Line | Column | Issue | Linter |"),
               Line("tsep", "")>>
             \o [i \in 1..Len(static_analysis.issues) |-> Row(static_analysis.issues[i])]
        ELSE IF static_analysis.success
        THEN <<Line("allclear", "**No code quality issues found!**")>>
        ELSE <<>>)

\* The shared shape with a section left out of the report when it has no item.
CountedTableOmittedWhenEmpty(title, found, head, items, clear) ==
    IF items # <<>>
    THEN <<Line("heading", title), Blank,
           [k |-> "heading", text |-> found, cells |-> [count |-> Len(items)]],
           Blank, Line("thead", head), Line("tsep", "")>>
         \o [i \in 1..Len(items) |-> Row(items[i])]
         \o <<Blank, Blank>>
    ELSE <<>>

\* The shape shared by the vet, staticcheck, dead-code, vulnerability and
\* architecture builders: a title, then either a counted heading and a table
\* with one row per item, or the all-clear sentence.
CountedTable(title, found, head, items, clear) ==
    <<Line("heading", title), Blank>>
    \o (IF items # <<>>
        THEN <<[k |-> "heading", text |-> found, cells |-> [count |-> Len(items)]],
               Blank, Line("thead", head), Line("tsep", "")>>
             \o [i \in 1..Len(items) |-> Row(items[i])]
        ELSE <<Line("allclear", clear)>>)
    \o <<Blank, Blank>>

\* _build_vet_section
BuildVetSection(vet_issues) ==
    CountedTable("## Go Vet Analysis", "### Go Vet Issues Found:",
                 "| File | Line | Column | Issue |", vet_issues,
                 "**No go vet issues found** - Code passes all built-in static checks!")

\* _build_staticcheck_section
BuildStaticcheckSection(staticcheck_issues) ==
    CountedTable("## Staticcheck Analysis", "### Staticcheck Issues Found:",
                 "| File | Line | Column | Issue | Rule |", staticcheck_issues,
                 "**No staticcheck issues found** - Code meets advanced static analysis standards!")

\* _build_deadcode_section
BuildDeadcodeSection(deadcode_items) ==
    CountedTable("## Dead Code Analysis", "### Unused Code Found:",
                 "| File | Line | Column | Unused Item |", deadcode_items,
                 "**No unused code found** - All functions are properly utilized!")

\* _build_vulnerability_section: a row shows the type and the message
BuildVulnerabilitySection(vulnerabilities) ==
    CountedTable("## Vulnerability Analysis (govulncheck)", "### Known Vulnerabilities Found:",
                 "| Type | Details |",
                 [i \in 1..Len(vulnerabilities) |->
                     [type |-> vulnerabilities[i].type, message |-> vulnerabilities[i].message]],
                 "**No known vulnerabilities found** - Dependencies are secure!")

\* _build_architecture_section: a row shows the type and the details
BuildArchitectureSection(violations) ==
    CountedTable("## Architecture Analysis", "### Architecture Violations Found:",
                 "| Type | Details |",
                 [i \in 1..Len(violations) |->
                     [violation_type |-> violations[i].violation_type,
                      details |-> violations[i].details]],
                 "**Clean Architecture Maintained** - No dependency violations detected!")

\* _build_code_smells_section: the first 20 smells and a note for the rest
BuildCodeSmellsSection(code_smells) ==
    <<Line("heading", "## Code Quality Issues"), Blank>>
    \o (IF code_smells # <<>>
        THEN <<[k |-> "heading", text |-> "### Code Smells Found:",
                cells |-> [count |-> Len(code_smells)]],
               Blank, Line("thead", "| Type | File | Line | Issue |"), Line("tsep", "")>>
             \o LET shown == Slice(code_smells, 20)
                IN  [i \in 1..Len(shown) |-> Row(shown[i])]
             \o (IF Len(code_smells) > 20
                 THEN <<[k |-> "note", text |-> "more issues",
                         cells |-> [count |-> Len(code_smells) - 20]]>>
                 ELSE <<>>)
        ELSE <<Line("allclear", "**No code smells detected** - Code is clean and well-structured!")>>)
    \o <<Blank, Blank>>

\* str.upper() on the letters
LowerAlphabet ==
    <<"a", "b", "c", "d", "e", "f", "g", "h", "i", "j", "k", "l", "m",
      "n", "o", "p", "q", "r", "s", "t", "u", "v", "w", "x", "y", "z">>
UpperAlphabet ==
    <<"A", "B", "C", "D", "E", "F", "G", "H", "I", "J", "K", "L", "M",
      "N", "O", "P", "Q", "R", "S", "T", "U", "V", "W", "X", "Y", "Z">>
UpperChar(c) ==
    IF \E i \in 1..Len(LowerAlphabet) : LowerAlphabet[i] = c
    THEN UpperAlphabet[CHOOSE i \in 1..Len(LowerAlphabet) : LowerAlphabet[i] = c]
    ELSE c
Upper(cs) == [i \in 1..Len(cs) |-> UpperChar(cs[i])]

StrMEDIUM == <<"M", "E", "D", "I", "U", "M">>
StrLOW == <<"L", "O", "W">>

\* The comparison without .upper(): a severity in another case matches nothing.
HasSeverityExactCase(issue, level) == issue.severity.s = level

\* i.severity.upper() == level; only reached for str severities
HasSeverity(issue, level) == Upper(issue.severity.s) = level

\* issue.details[:100] followed by '...' when the details are longer
TruncatedDetails(details) ==
    IF Len(details) > 100 THEN SubSeq(details, 1, 100) \o <<".", ".", ".">> ELSE details

SecurityRow(issue) ==
    Row([icon |-> IF HasSeverity(issue, StrHIGH) THEN "red_circle"
                  ELSE IF HasSeverity(issue, StrMEDIUM) THEN "orange_diamond"
                  ELSE "yellow_circle",
         severity |-> issue.severity.s, rule |-> issue.rule, file |-> issue.file,
         line |-> issue.line, details |-> TruncatedDetails(issue.details.s)])

\* _build_security_section: .upper() of a severity that is not a str raises
\* AttributeError, slicing details that are None or a number raises TypeError
BuildSecuritySection(security_issues) ==
    IF \E i \in 1..Len(security_issues) : security_issues[i].severity.t # "str"
    THEN Raise("AttributeError")
    ELSE LET high_issues == SelectSeq(security_issues, LAMBDA i : HasSeverity(i, StrHIGH))
             medium_issues == SelectSeq(security_issues, LAMBDA i : HasSeverity(i, StrMEDIUM))
             low_issues == SelectSeq(security_issues, LAMBDA i : HasSeverity(i, StrLOW))
             shown == high_issues \o medium_issues \o low_issues
         IN  IF \E i \in 1..Len(shown) : shown[i].details.t # "str"
             THEN Raise("TypeError")
             ELSE Return(
                 <<Line("heading", "## Security Analysis Results"), Blank>>
                 \o (IF security_issues # <<>>
                     THEN <<[k |-> "heading", text |-> "### Security Issues Found:",
                             cells |-> [count |-> Len(security_issues)]],
                            Blank,
                            Line("thead", "| Severity | Rule | File | Line | Details |"),
                            Line("tsep", "")>>
                          \o [i \in 1..Len(shown) |-> SecurityRow(shown[i])]
                     ELSE <<Line("allclear", "**No security issues found** - Great job maintaining secure code!")>>)
                 \o <<Blank, Blank>>)

StrNA == <<"N", "/", "A">>
StrOk == <<"o", "k">>
StrOkCached == StrOk \o <<" ", "(", "c", "a", "c", "h", "e", "d", ")">>
StrDash == <<"-">>

\* package.split('/')[-1] if '/' in package else package
PackageShortName(package) ==
    IF Contains(package, <<"/">>)
    THEN LET parts == Split(package, <<"/">>) IN parts[Len(parts)]
    ELSE package

\* coverage_map.get(name, 'N/A') after the loop that fills coverage_map: a
\* later entry of the same short name overwrites an earlier one.
CoverageMapGet(coverage_entries, name) ==
    LET same == {i \in 1..Len(coverage_entries) :
                    PackageShortName(coverage_entries[i].package) = name}
    IN  IF same = {} THEN StrNA ELSE coverage_entries[Max(same)].coverage

\* for entry in metrics.coverage_entries:
\*     if entry.package == pkg['full_package']: coverage = entry.coverage; break
FullPackageCoverage(coverage_entries, full_package) ==
    LET same == {i \in 1..Len(coverage_entries) :
                    coverage_entries[i].package = full_package}
    IN  IF same = {} THEN StrNA ELSE coverage_entries[Min(same)].coverage

\* The mutated lookup skips the map of short names.
PackageCoverageByFullNameOnly(pkg, coverage_entries) ==
    FullPackageCoverage(coverage_entries, pkg.full_package)

\* The coverage column of one package row
PackageCoverage(pkg, coverage_entries) ==
    LET coverage == CoverageMapGet(coverage_entries, pkg.package)
    IN  IF coverage = StrNA
        THEN FullPackageCoverage(coverage_entries, pkg.full_package)
        ELSE coverage

RECURSIVE SumOf(_, _)
SumOf(seq, field) ==
    IF seq = <<>> THEN 0 ELSE Head(seq)[field] + SumOf(Tail(seq), field)

PackageDetailsHeading == Line("heading", "### Package Details")
CoverageSummaryHeading == Line("heading", "### Test Coverage Summary")

\* _build_metrics_section
BuildMetricsSection(metrics) ==
    <<Line("heading", "## Code Metrics"), Line("heading", "### Project Overview"),
      [k |-> "bullet", text |-> "- **Total Lines of Code:**",
       cells |-> [count |-> metrics.total_lines]],
      [k |-> "bullet", text |-> "- **Go Files:**", cells |-> [count |-> metrics.go_files]],
      [k |-> "bullet", text |-> "- **Packages:**", cells |-> [count |-> metrics.packages]],
      PackageDetailsHeading>>
    \o (IF metrics.package_metrics # <<>>
        THEN <<Line("thead", "| Package | Go Files | Test Files | Lines | Test Lines | Test Coverage |"),
               Line("tsep", "")>>
             \o [i \in 1..Len(metrics.package_metrics) |->
                    LET pkg == metrics.package_metrics[i]
                    IN  Row([package |-> pkg.package, go_files |-> pkg.go_files,
                             test_files |-> pkg.test_files, lines |-> pkg.lines,
                             test_lines |-> pkg.test_lines,
                             coverage |-> PackageCoverage(pkg, metrics.coverage_entries)])]
             \o <<[k |-> "total", text |-> "| **TOTAL** |",
                   cells |-> [go_files |-> SumOf(metrics.package_metrics, "go_files"),
                              test_files |-> SumOf(metrics.package_metrics, "test_files"),
                              lines |-> SumOf(metrics.package_metrics, "lines"),
                              test_lines |-> SumOf(metrics.package_metrics, "test_lines"),
                              coverage |-> StrDash]]>>
        ELSE <<Line("text", "No package metrics available")>>)
    \o <<CoverageSummaryHeading,
         Line("thead", "| Package | Status | Coverage |"), Line("tsep", "")>>
    \o (IF metrics.coverage_entries # <<>>
        THEN [i \in 1..Len(metrics.coverage_entries) |->
                 LET entry == metrics.coverage_entries[i]
                 IN  Row([package |-> PackageShortName(entry.package),
                          icon |-> IF StartsWith(entry.status, StrOk)
                                   THEN "check" ELSE "cross",
                          status |-> entry.status, coverage |-> entry.coverage])]
        ELSE <<Line("placeholder", "| - | cross Error | Unable to run tests |")>>)

(***************************************************************************)
(* Inputs of the section builders                                          *)
(***************************************************************************)
MaxEntries == 3
MaxPackages == 2

IsDescending(entries) ==
    \A i \in 1..(Len(entries) - 1) : entries[i].complexity >= entries[i + 1].complexity

ComplexityEntry(complexity, function) ==
    [complexity |-> complexity, package |-> <<"p">>, function |-> function,
     file |-> StrAGo, line |-> 3]

\* Entries as the parsers return them: sorted by descending complexity.
ComplexityEntryPool ==
    {ComplexityEntry(26, <<"f">>), ComplexityEntry(26, <<"g">>),
     ComplexityEntry(16, <<"f">>), ComplexityEntry(15, <<"f">>)}
ComplexityLists ==
    {es \in SeqUpTo(ComplexityEntryPool, MaxEntries) : IsDescending(es)}

ReportConfigs == [top_functions : {1, 2, 10}, complexity_threshold : {15, 25}]
DefaultReportConfig == [top_functions |-> 10, complexity_threshold |-> 15]

StrMessage == <<"m", "s", "g">>
IssueDict(message) ==
    [file |-> StrAGo, line |-> <<"3">>, col |-> <<"1">>, message |-> message]
IssueLists == SeqUpTo({IssueDict(StrMessage), IssueDict(StrBar)}, MaxEntries)

\* The dicts get_static_analysis returns: success is computed from the rest.
StaticAnalysisResult(issues, error) ==
    [issues |-> issues, error |-> error, success |-> (Len(issues) = 0 /\ error = <<>>)]
StaticAnalysisResults ==
    {StaticAnalysisResult(issues, error) :
        issues \in SeqUpTo({[file |-> StrAGo, line |-> <<"3">>, col |-> <<"1">>,
                             message |-> StrMessage, linter |-> <<"l">>]}, MaxEntries),
        error \in {<<>>, <<"e", "r", "r">>}}

SecurityIssue(severity) ==
    [severity |-> PyStr(severity), confidence |-> PyStr(StrHIGH), rule |-> PyStr(<<"G", "1">>),
     details |-> PyStr(StrMessage), file |-> StrAGo, line |-> 7]
SecurityLists ==
    SeqUpTo({SecurityIssue(StrHIGH), SecurityIssue(<<"h", "i", "g", "h">>),
             SecurityIssue(<<"m", "e", "d", "i", "u", "m">>),
             SecurityIssue(StrLOW), SecurityIssue(StrUNKNOWN)}, MaxEntries)

VulnerabilityLists ==
    SeqUpTo({[type |-> "vulnerability", message |-> <<"C", "V", "E", "-", "1">>,
              details |-> <<>>]}, MaxEntries)
ViolationLists ==
    SeqUpTo({[violation_type |-> "dependency_violation",
              details |-> <<"i", "m", "p", "o", "r", "t">>, file |-> <<>>]}, MaxEntries)
CodeSmellLists ==
    SeqUpTo({[type |-> "string_duplication", message |-> StrMessage,
              file |-> StrAGo, line |-> 3]}, MaxEntries)

\* Package paths as `go list` prints them; two of them share a short name.
PackagePaths == {<<"m", "/", "a">>, <<"x", "/", "a">>, <<"m", "/", "b">>}
StrHalf == <<"5", "0", ".", "0", "%">>

\* A package metric as _get_package_metrics builds it from a package path.
PackageMetric(package) ==
    [package |-> PackageShortName(package), full_package |-> package,
     go_files |-> 2, test_files |-> 1, lines |-> 40, test_lines |-> 10]

CoverageEntries ==
    [package : PackagePaths \cup {<<"a">>}, status : {StrOk},
     coverage : {StrNA, StrHalf, <<"9", "%">>}, cached : {FALSE}]

MetricsInputs ==
    [total_lines : {80}, go_files : {6}, packages : {2},
     coverage_entries : SeqUpTo(CoverageEntries, MaxPackages),
     package_metrics : {[i \in 1..Len(ps) |-> PackageMetric(ps[i])] :
                           ps \in SeqUpTo(PackagePaths, MaxPackages)}]

InitRender ==
    /\ PipelineIdle
    /\ ret = Pending
    /\ \/ /\ fn = "_build_complexity_section"
          /\ args \in [complexity_data : ComplexityLists, config : ReportConfigs]
       \/ /\ fn = "_build_cognitive_complexity_section"
          /\ args \in [cognitive_complexity : ComplexityLists, config : ReportConfigs]
       \/ /\ fn = "_build_static_analysis_section"
          /\ args \in [static_analysis : StaticAnalysisResults]
       \/ /\ fn = "_build_vet_section"
          /\ args \in [vet_issues : IssueLists]
       \/ /\ fn = "_build_staticcheck_section"
          /\ args \in [staticcheck_issues :
                          {[i \in 1..Len(xs) |->
                               [file |-> xs[i].file, line |-> xs[i].line, col |-> xs[i].col,
                                message |-> xs[i].message,
                                rule |-> <<"S", "A", "1">>]] : xs \in IssueLists}]
       \/ /\ fn = "_build_security_section"
          /\ args \in [security_issues : SecurityLists]
       \/ /\ fn = "_build_vulnerability_section"
          /\ args \in [vulnerabilities : VulnerabilityLists]
       \/ /\ fn = "_build_code_smells_section"
          /\ args \in [code_smells : CodeSmellLists]
       \/ /\ fn = "_build_deadcode_section"
          /\ args \in [deadcode_items : IssueLists]
       \/ /\ fn = "_build_architecture_section"
          /\ args \in [violations : ViolationLists]
       \/ /\ fn = "_build_metrics_section"
          /\ args \in [metrics : MetricsInputs]

CallBuildComplexity ==
    /\ fn = "_build_complexity_section"
    /\ ret = Pending
    /\ ret' = Return(BuildComplexitySection(args.complexity_data, args.config))
    /\ UNCHANGED <<fn, args, pipeline>>

CallBuildCognitive ==
    /\ fn = "_build_cognitive_complexity_section"
    /\ ret = Pending
    /\ ret' = Return(BuildCognitiveComplexitySection(args.cognitive_complexity))
    /\ UNCHANGED <<fn, args, pipeline>>

CallBuildStaticAnalysis ==
    /\ fn = "_build_static_analysis_section"
    /\ ret = Pending
    /\ ret' = Return(BuildStaticAnalysisSection(args.static_analysis))
    /\ UNCHANGED <<fn, args, pipeline>>

CallBuildVet ==
    /\ fn = "_build_vet_section"
    /\ ret = Pending
    /\ ret' = Return(BuildVetSection(args.vet_issues))
    /\ UNCHANGED <<fn, args, pipeline>>

CallBuildStaticcheck ==
    /\ fn = "_build_staticcheck_section"
    /\ ret = Pending
    /\ ret' = Return(BuildStaticcheckSection(args.staticcheck_issues))
    /\ UNCHANGED <<fn, args, pipeline>>

CallBuildSecurity ==
    /\ fn = "_build_security_section"
    /\ ret = Pending
    /\ ret' = BuildSecuritySection(args.security_issues)
    /\ UNCHANGED <<fn, args, pipeline>>

CallBuildVulnerability ==
    /\ fn = "_build_vulnerability_section"
    /\ ret = Pending
    /\ ret' = Return(BuildVulnerabilitySection(args.vulnerabilities))
    /\ UNCHANGED <<fn, args, pipeline>>

CallBuildCodeSmells ==
    /\ fn = "_build_code_smells_section"
    /\ ret = Pending
    /\ ret' = Return(BuildCodeSmellsSection(args.code_smells))
    /\ UNCHANGED <<fn, args, pipeline>>

CallBuildDeadcode ==
    /\ fn = "_build_deadcode_section"
    /\ ret = Pending
    /\ ret' = Return(BuildDeadcodeSection(args.deadcode_items))
    /\ UNCHANGED <<fn, args, pipeline>>

CallBuildArchitecture ==
    /\ fn = "_build_architecture_section"
    /\ ret = Pending
    /\ ret' = Return(BuildArchitectureSection(args.violations))
    /\ UNCHANGED <<fn, args, pipeline>>

CallBuildMetrics ==
    /\ fn = "_build_metrics_section"
    /\ ret = Pending
    /\ ret' = Return(BuildMetricsSection(args.metrics))
    /\ UNCHANGED <<fn, args, pipeline>>

NextRender ==
    \/ CallBuildComplexity
    \/ CallBuildCognitive
    \/ CallBuildStaticAnalysis
    \/ CallBuildVet
    \/ CallBuildStaticcheck
    \/ CallBuildSecurity
    \/ CallBuildVulnerability
    \/ CallBuildCodeSmells
    \/ CallBuildDeadcode
    \/ CallBuildArchitecture
    \/ CallBuildMetrics

SpecRender == InitRender /\ [][NextRender]_vars

(***************************************************************************)
(* Reading a rendered section back                                         *)
(***************************************************************************)
Rendered(name) == fn = name /\ ret.kind = "return"

\* The position of the heading with the given text (0 when it is absent).
HeadingAt(lines, heading) ==
    LET at == {i \in 1..Len(lines) :
                  lines[i].k = "heading" /\ lines[i].text = heading.text}
    IN  IF at = {} THEN 0 ELSE Min(at)

\* What a part of a section shows under its titles and table header.
Body(lines) ==
    SelectSeq(lines, LAMBDA l : l.k \notin {"heading", "blank", "thead", "tsep"})
DataRows(lines) == SelectSeq(lines, LAMBDA l : l.k = "row")

IsDataTable(body) ==
    /\ \E i \in 1..Len(body) : body[i].k = "row"
    /\ \A i \in 1..Len(body) : body[i].k \in {"row", "total"}
IsAllClear(body) == Len(body) = 1 /\ body[1].k = "allclear"

TopPart(lines) == SubSeq(lines, 1, HeadingAt(lines, AttentionHeading) - 1)
AttentionPart(lines) == SubSeq(lines, HeadingAt(lines, AttentionHeading) + 1, Len(lines))
PackagePart(lines) ==
    SubSeq(lines, HeadingAt(lines, PackageDetailsHeading) + 1,
           HeadingAt(lines, CoverageSummaryHeading) - 1)

EntryOfRow(row) ==
    [complexity |-> row.cells.complexity, package |-> row.cells.package,
     function |-> row.cells.function, file |-> row.cells.file, line |-> row.cells.line]
EntriesShown(lines) ==
    LET rows == DataRows(lines) IN [i \in 1..Len(rows) |-> EntryOfRow(rows[i])]

\* The parts of the section just rendered, each with whether its input is
\* empty.  The input of the above-threshold part is read as the entries above
\* the threshold, the input of the metrics section as the package metrics.
SectionParts ==
    CASE fn = "_build_complexity_section" ->
             <<[body |-> Body(TopPart(ret.value)),
                empty |-> args.complexity_data = <<>>],
               [body |-> Body(AttentionPart(ret.value)),
                empty |-> \A i \in 1..Len(args.complexity_data) :
                             args.complexity_data[i].complexity
                                 <= args.config.complexity_threshold]>>
      [] fn = "_build_cognitive_complexity_section" ->
             <<[body |-> Body(ret.value), empty |-> args.cognitive_complexity = <<>>]>>
      [] fn = "_build_static_analysis_section" ->
             <<[body |-> Body(ret.value), empty |-> args.static_analysis.issues = <<>>]>>
      [] fn = "_build_vet_section" ->
             <<[body |-> Body(ret.value), empty |-> args.vet_issues = <<>>]>>
      [] fn = "_build_staticcheck_section" ->
             <<[body |-> Body(ret.value), empty |-> args.staticcheck_issues = <<>>]>>
      [] fn = "_build_security_section" ->
             <<[body |-> Body(ret.value), empty |-> args.security_issues = <<>>]>>
      [] fn = "_build_vulnerability_section" ->
             <<[body |-> Body(ret.value), empty |-> args.vulnerabilities = <<>>]>>
      [] fn = "_build_code_smells_section" ->
             <<[body |-> Body(ret.value), empty |-> args.code_smells = <<>>]>>
      [] fn = "_build_deadcode_section" ->
             <<[body |-> Body(ret.value), empty |-> args.deadcode_items = <<>>]>>
      [] fn = "_build_architecture_section" ->
             <<[body |-> Body(ret.value), empty |-> args.violations = <<>>]>>
      [] fn = "_build_metrics_section" ->
             <<[body |-> Body(PackagePart(ret.value)),
                empty |-> args.metrics.package_metrics = <<>>]>>

\* C7: every report section renders as exactly one of two shapes, a data
\* table with at least one data row or a single all-clear sentence, and the
\* all-clear sentence is rendered if and only if the section's input is
\* empty.
C7_EverySectionHasOneOfTwoShapes ==
    (ret.kind = "return" /\ fn \in {"_build_complexity_section",
        "_build_cognitive_complexity_section", "_build_static_analysis_section",
        "_build_vet_section", "_build_staticcheck_section", "_build_security_section",
        "_build_vulnerability_section", "_build_code_smells_section",
        "_build_deadcode_section", "_build_architecture_section",
        "_build_metrics_section"}) =>
        \A i \in 1..Len(SectionParts) :
            LET part == SectionParts[i]
            IN  /\ IsDataTable(part.body) \/ IsAllClear(part.body)
                /\ IsAllClear(part.body) <=> part.empty

\* C9: in the cyclomatic and in the cognitive top-N table the data rows are
\* exactly the first min(N, length) entries of the sorted list, N being the
\* configured top-N count.
C9_TopTablesShowFirstN ==
    LET n == args.config.top_functions
    IN  /\ Rendered("_build_complexity_section") =>
               EntriesShown(TopPart(ret.value))
                   = SubSeq(args.complexity_data, 1, Min({n, Len(args.complexity_data)}))
        /\ Rendered("_build_cognitive_complexity_section") =>
               EntriesShown(ret.value)
                   = SubSeq(args.cognitive_complexity, 1,
                            Min({n, Len(args.cognitive_complexity)}))

\* The number of entries above the configured threshold; the list being
\* sorted in descending order, they are its first entries.
AboveThresholdCount ==
    Cardinality({i \in 1..Len(args.complexity_data) :
                    args.complexity_data[i].complexity > args.config.complexity_threshold})

\* C10: the above-threshold table lists exactly the cyclomatic entries whose
\* complexity exceeds the configured threshold, in sorted order, whatever the
\* configured top-N count.
C10_AboveThresholdListsAllQualifying ==
    Rendered("_build_complexity_section") =>
        LET shown == EntriesShown(AttentionPart(ret.value))
        IN  /\ shown = SubSeq(args.complexity_data, 1, AboveThresholdCount)
            /\ \A i \in 1..Len(shown) :
                   shown[i].complexity > args.config.complexity_threshold

\* Three entries, the third above the threshold, a top-N count of one: the
\* third entry is listed in the above-threshold table.
C10_Witness ==
    /\ Rendered("_build_complexity_section")
    /\ args.config.top_functions = 1
    /\ Len(args.complexity_data) = 3
    /\ args.complexity_data[3].complexity > args.config.complexity_threshold
    /\ Len(DataRows(TopPart(ret.value))) = 1
    /\ Len(DataRows(AttentionPart(ret.value))) = 3
    /\ EntryOfRow(DataRows(AttentionPart(ret.value))[3]) = args.complexity_data[3]

\* The last path segment of a package path.
LastSegment(package) ==
    LET slashes == {i \in 1..Len(package) : package[i] = "/"}
    IN  IF slashes = {} THEN package
        ELSE SubSeq(package, Max(slashes) + 1, Len(package))

\* C6: in the package-details table the coverage column of a package metric
\* is the coverage of a coverage entry whose short name equals the metric's
\* short name if there is one, otherwise the coverage of an entry whose
\* package equals the metric's full path if there is one, otherwise "N/A".
C6_CoverageColumnLookup ==
    Rendered("_build_metrics_section") =>
        LET rows == DataRows(PackagePart(ret.value))
            entries == args.metrics.coverage_entries
        IN  /\ Len(rows) = Len(args.metrics.package_metrics)
            /\ \A i \in 1..Len(rows) :
                   LET pkg == args.metrics.package_metrics[i]
                       byShort == {j \in 1..Len(entries) :
                                      LastSegment(entries[j].package) = pkg.package}
                       byFull == {j \in 1..Len(entries) :
                                     entries[j].package = pkg.full_package}
                   IN  IF byShort # {}
                       THEN \E j \in byShort : rows[i].cells.coverage = entries[j].coverage
                       ELSE IF byFull # {}
                       THEN \E j \in byFull : rows[i].cells.coverage = entries[j].coverage
                       ELSE rows[i].cells.coverage = StrNA

\* A package row that shows the coverage of an entry of another path with
\* the same short name, next to a row without any matching entry.
C6_Witness ==
    /\ Rendered("_build_metrics_section")
    /\ Len(args.metrics.package_metrics) = 2
    /\ Len(args.metrics.coverage_entries) = 1
    /\ args.metrics.package_metrics[1].full_package = <<"m", "/", "a">>
    /\ args.metrics.package_metrics[2].full_package = <<"m", "/", "b">>
    /\ args.metrics.coverage_entries[1].package = <<"a">>
    /\ DataRows(PackagePart(ret.value))[1].cells.coverage = StrHalf
    /\ DataRows(PackagePart(ret.value))[2].cells.coverage = StrNA

(***************************************************************************)
(* The line parsers of the other tools                                     *)
(***************************************************************************)
\* str.lower() on the letters
LowerChar(c) ==
    IF \E i \in 1..Len(UpperAlphabet) : UpperAlphabet[i] = c
    THEN LowerAlphabet[CHOOSE i \in 1..Len(UpperAlphabet) : UpperAlphabet[i] = c]
    ELSE c
Lower(cs) == [i \in 1..Len(cs) |-> LowerChar(cs[i])]

\* The match objects of the lines that are not blank and that the pattern
\* matches, in line order.
MatchedLines(output, pattern) ==
    LET lines == OutputLines(output)
        matches == [i \in 1..Len(lines) |->
                       IF Strip(lines[i]) = <<>> THEN NoMatch
                       ELSE ReMatch(pattern, lines[i])]
    IN  SelectSeq(matches, LAMBDA m : m.ok)

\* file_path[2:] if file_path.startswith('./')
WithoutDotSlash(file_path) ==
    IF StartsWith(file_path, <<".", "/">>) THEN SubSeq(file_path, 3, Len(file_path))
    ELSE file_path

\* r'^(.+):(\d+):(\d+): (.+)$'
VetPattern ==
    <<Atom("any", TRUE, 1), Atom("colon", FALSE, 0), Atom("digit", TRUE, 2),
      Atom("colon", FALSE, 0), Atom("digit", TRUE, 3), Atom("colon", FALSE, 0),
      Atom("blank", FALSE, 0), Atom("any", TRUE, 4)>>

\* r'^(.+):(\d+):(\d+):\s+(.+?)\s*(?:\(([^)]+)\))?$'
StaticcheckPattern ==
    <<Atom("any", TRUE, 1), Atom("colon", FALSE, 0), Atom("digit", TRUE, 2),
      Atom("colon", FALSE, 0), Atom("digit", TRUE, 3), Atom("colon", FALSE, 0),
      Atom("space", TRUE, 0), LazyPlus("any", 4), Star("space"),
      Optional(<<Atom("lparen", FALSE, 0), Atom("nonrparen", TRUE, 5),
                 Atom("rparen", FALSE, 0)>>)>>

\* r'^(.+):(\d+):(\d+):\s+(.+?)\s+\(([^)]+)\)$'
GolangciPattern ==
    <<Atom("any", TRUE, 1), Atom("colon", FALSE, 0), Atom("digit", TRUE, 2),
      Atom("colon", FALSE, 0), Atom("digit", TRUE, 3), Atom("colon", FALSE, 0),
      Atom("space", TRUE, 0), LazyPlus("any", 4), Atom("space", TRUE, 0),
      Atom("lparen", FALSE, 0), Atom("nonrparen", TRUE, 5), Atom("rparen", FALSE, 0)>>

\* r'^(.+):(\d+):\d+: (.+)$'
GoconstPattern ==
    <<Atom("any", TRUE, 1), Atom("colon", FALSE, 0), Atom("digit", TRUE, 2),
      Atom("colon", FALSE, 0), Atom("digit", TRUE, 0), Atom("colon", FALSE, 0),
      Atom("blank", FALSE, 0), Atom("any", TRUE, 3)>>

\* _parse_vet_output
ParseVetOutput(output) ==
    LET ms == MatchedLines(output, VetPattern)
    IN  [i \in 1..Len(ms) |->
            [file |-> WithoutDotSlash(ms[i].g[1]), line |-> ms[i].g[2],
             col |-> ms[i].g[3], message |-> ms[i].g[4]]]

\* _parse_deadcode_output
ParseDeadcodeOutput(output) ==
    LET ms == MatchedLines(output, VetPattern)
    IN  [i \in 1..Len(ms) |->
            [file |-> WithoutDotSlash(ms[i].g[1]), line |-> ms[i].g[2],
             col |-> ms[i].g[3], message |-> ms[i].g[4]]]

StrStaticcheck == <<"s", "t", "a", "t", "i", "c", "c", "h", "e", "c", "k">>

\* _parse_staticcheck_output
ParseStaticcheckOutput(output) ==
    LET ms == MatchedLines(output, StaticcheckPattern)
    IN  [i \in 1..Len(ms) |->
            [file |-> WithoutDotSlash(ms[i].g[1]), line |-> ms[i].g[2],
             col |-> ms[i].g[3], message |-> ms[i].g[4],
             rule |-> IF ms[i].g[5] # <<>> THEN ms[i].g[5] ELSE StrStaticcheck]]

\* _parse_golangci_output
ParseGolangciOutput(output) ==
    LET ms == MatchedLines(output, GolangciPattern)
    IN  [i \in 1..Len(ms) |->
            [file |-> ms[i].g[1], line |-> ms[i].g[2], col |-> ms[i].g[3],
             message |-> ms[i].g[4], linter |-> ms[i].g[5]]]

\* _parse_goconst_output
ParseGoconstOutput(output) ==
    LET ms == MatchedLines(output, GoconstPattern)
    IN  [i \in 1..Len(ms) |->
            [type |-> "string_duplication", message |-> ms[i].g[3],
             file |-> ms[i].g[1], line |-> DigitsToInt(ms[i].g[2])]]

StrCleanArchitecture == <<"C", "l", "e", "a", "n", " ", "A", "r", "c", "h", "i", "t", "e", "c", "t", "u", "r", "e">>
StrDependencyRule == <<"d", "e", "p", "e", "n", "d", "e", "n", "c", "y", " ", "r", "u", "l", "e">>
StrImport == <<"i", "m", "p", "o", "r", "t">>

\* _parse_cleanarch_output
ParseCleanarchOutput(stdout, stderr) ==
    LET output == IF Strip(stderr) # <<>> THEN stderr ELSE stdout
        kept == SelectSeq(OutputLines(output),
                          LAMBDA line :
                              /\ Strip(line) # <<>>
                              /\ ~Contains(line, StrCleanArchitecture)
                              /\ \/ Contains(Lower(line), StrDependencyRule)
                                 \/ Contains(Lower(line), StrImport))
    IN  [i \in 1..Len(kept) |->
            [violation_type |-> "dependency_violation", details |-> Strip(kept[i]),
             file |-> <<>>]]

StrVulnerability == <<"v", "u", "l", "n", "e", "r", "a", "b", "i", "l", "i", "t", "y">>
StrCVE == <<"C", "V", "E", "-">>

\* _parse_govulncheck_output: lines[i+1:i+3] are the (at most two) lines that
\* follow line i
ParseGovulncheckOutput(stdout, stderr) ==
    LET lines == OutputLines(stdout \o stderr)
        hits == SelectSeq([i \in 1..Len(lines) |-> i],
                          LAMBDA i : \/ Contains(Lower(lines[i]), StrVulnerability)
                                     \/ Contains(lines[i], StrCVE))
    IN  [k \in 1..Len(hits) |->
            [type |-> "vulnerability", message |-> Strip(lines[hits[k]]),
             details |-> SubSeq(lines, hits[k] + 1, Min({hits[k] + 2, Len(lines)}))]]

StrCoverageColon == <<"c", "o", "v", "e", "r", "a", "g", "e", ":">>
StrCachedMark == <<"(", "c", "a", "c", "h", "e", "d", ")">>

\* re.search(r'coverage: ([0-9.]+%)', line): group 1 of the leftmost match,
\* or 'N/A' when there is none
CoverageOf(line) ==
    LET prefix == StrCoverageColon \o <<" ">>
        at == {i \in 1..Len(line) :
                  /\ OccursAt(line, prefix, i)
                  /\ LET p == i + Len(prefix)
                         run == RunLength(line, p, "digitdot")
                     IN  run >= 1 /\ p + run <= Len(line) /\ line[p + run] = "%"}
    IN  IF at = {} THEN StrNA
        ELSE LET p == Min(at) + Len(prefix)
             IN  SubSeq(line, p, p + RunLength(line, p, "digitdot"))

\* The entries one line of `go test -cover` output adds (none or one)
CoverageLine(line) ==
    IF Strip(line) = <<>> THEN <<>>
    ELSE IF StartsWith(line, StrOk)
    THEN LET parts == SplitWs(line)
             cached == Contains(line, StrCachedMark)
         IN  IF Len(parts) >= 2
             THEN <<[package |-> parts[2],
                     status |-> IF cached THEN StrOkCached ELSE StrOk,
                     coverage |-> CoverageOf(line), cached |-> cached]>>
             ELSE <<>>
    ELSE IF Contains(line, StrCoverageColon)
    THEN LET parts == SplitWs(Strip(line))
         IN  IF parts # <<>>
             THEN <<[package |-> parts[1], status |-> StrDash,
                     coverage |-> CoverageOf(line), cached |-> FALSE]>>
             ELSE <<>>
    ELSE <<>>

\* _parse_coverage_output
ParseCoverageOutput(output) ==
    LET lines == OutputLines(output)
    IN  Concat([i \in 1..Len(lines) |-> CoverageLine(lines[i])])

StrTestGo == <<"_", "t", "e", "s", "t", ".", "g", "o">>
StrTest == <<"T", "e", "s", "t">>
StrBenchmark == <<"B", "e", "n", "c", "h", "m", "a", "r", "k">>
StrExample == <<"E", "x", "a", "m", "p", "l", "e">>

\* The filter of get_cognitive_complexity for exclude_test_files
IsTestEntry(e) ==
    \/ Contains(e.file, StrTestGo)
    \/ StartsWith(e.function, StrTest)
    \/ StartsWith(e.function, StrBenchmark)
    \/ StartsWith(e.function, StrExample)

(***************************************************************************)
(* The world outside the process                                           *)
(*                                                                         *)
(* A finished subprocess is the CompletedProcess subprocess.run returns:   *)
(* exit code, stdout, stderr.  `kind` names what the tool did and is not   *)
(* read by the program.  When the program cannot be started at all,        *)
(* subprocess.run raises OSError and there is no CompletedProcess.         *)
(***************************************************************************)
MaxFaults == 1

Completed(kind, returncode, stdout, stderr) ==
    [kind |-> kind, returncode |-> returncode, stdout |-> stdout, stderr |-> stderr]

StrGarbage == <<"x", " ", "y">>
StrToolError == <<"b", "o", "o", "m">>

\* The tool runs and prints nothing.
RunEmpty == Completed("empty", 0, <<>>, <<>>)
\* The tool exits with a non-zero code and a message on stderr.
RunNonZero == Completed("nonzero", 2, <<>>, StrToolError)
\* The tool prints text that is not in its output format.
RunGarbage == Completed("garbage", 0, StrGarbage, <<>>)
\* The tool cannot be executed: subprocess.run raises OSError.
RunOSError == Completed("oserror", 0, <<>>, <<>>)

ToolRuns(findings) == {RunEmpty, RunNonZero, RunGarbage, RunOSError, findings}

GocycloFindings == Completed("findings", 0, <<"2", "6", " ", "p", " ", "f", " ", "a", ".", "g", "o", ":", "3", ":", "1">>, <<>>)
GocognitFindings == Completed("findings", 0, <<"2", "6", " ", "p", " ", "f", " ", "a", ".", "g", "o", ":", "3">>, <<>>)
GolangciFindings == Completed("findings", 1, <<"a", ".", "g", "o", ":", "3", ":", "1", ":", " ", "m", "s", "g", " ", "(", "l", ")">>, <<>>)
VetFindings == Completed("findings", 1, <<>>, <<".", "/", "a", ".", "g", "o", ":", "3", ":", "1", ":", " ", "m", "s", "g">>)
StaticcheckFindings == Completed("findings", 1, <<"a", ".", "g", "o", ":", "3", ":", "1", ":", " ", "m", "s", "g", " ", "(", "S", "A", "1", ")">>, <<>>)
VulnerabilityFindings == Completed("findings", 3, <<"C", "V", "E", "-", "1">>, <<>>)
GoconstFindings == Completed("findings", 0, <<"a", ".", "g", "o", ":", "3", ":", "1", ":", " ", "m", "s", "g">>, <<>>)
DeadcodeFindings == Completed("findings", 0, <<"a", ".", "g", "o", ":", "3", ":", "1", ":", " ", "u", "n", "r", "e", "a", "c", "h", "a", "b", "l", "e", " ", "f", "u", "n", "c", ":", " ", "b", "a", "r">>, <<>>)
CleanarchFindings == Completed("findings", 1, <<>>, <<"i", "m", "p", "o", "r", "t">>)
GoTestFindings == Completed("findings", 0, <<"o", "k", " ", "m", "/", "a", " ", "c", "o", "v", "e", "r", "a", "g", "e", ":", " ", "5", "0", ".", "0", "%">>, <<>>)

\* The stdout of gosec: blank, a JSON document, or text json rejects.  The
\* "unexpected" run prints the JSON document `null`.
GosecStdout(blank, is_json, value) ==
    [blank |-> blank, is_json |-> is_json, value |-> value]
GosecRuns ==
    {Completed("empty", 0, GosecStdout(TRUE, FALSE, PyNone), <<>>),
     Completed("nonzero", 2, GosecStdout(TRUE, FALSE, PyNone), StrToolError),
     Completed("garbage", 0, GosecStdout(FALSE, FALSE, PyNone), <<>>),
     Completed("unexpected", 0, GosecStdout(FALSE, TRUE, PyNone), <<>>),
     Completed("oserror", 0, GosecStdout(TRUE, FALSE, PyNone), <<>>),
     Completed("findings", 1,
               GosecStdout(FALSE, TRUE,
                           PyDict(<<<<StrIssues,
                                      PyList(<<PyDict(<<<<StrSeverity, PyStr(StrHIGH)>>,
                                                        <<StrFile, PyStr(StrAGo)>>,
                                                        <<StrLine, PyStr(<<"7">>)>>>>)>>)>>>>)),
               <<>>)}

\* `go list ./...`: fails, prints nothing, prints two packages, or prints a
\* package under /examples/ only.
GoListRuns ==
    {Completed("nonzero", 1, <<>>, StrToolError),
     Completed("empty", 0, <<>>, <<>>),
     Completed("findings", 0, <<"m", "/", "a", "\n", "m", "/", "b", "\n">>, <<>>),
     Completed("findings", 0, <<"m", "/", "e", "x", "a", "m", "p", "l", "e", "s", "/", "a", "\n">>, <<>>)}

Environments ==
    [tools : {"installed", "missing"}, go_list : GoListRuns, findings : BOOLEAN]

\* AnalysisConfig.__init__: the defaults
DefaultConfig ==
    [report |-> DefaultReportConfig, deadcode |-> DefaultDeadcodeConfig,
     exclude_test_files |-> TRUE, exclude_examples |-> TRUE]

StrExamples == <<"/", "e", "x", "a", "m", "p", "l", "e", "s", "/">>

\* [p.strip() for p in result.stdout.strip().split('\n') if p.strip()]
ListedPackages(stdout) ==
    LET lines == OutputLines(stdout)
    IN  SelectSeq([i \in 1..Len(lines) |-> Strip(lines[i])], LAMBDA p : p # <<>>)

\* packages = [p for p in packages if '/examples/' not in p]
WithoutExamples(packages, config) ==
    IF config.exclude_examples
    THEN SelectSeq(packages, LAMBDA p : ~Contains(p, StrExamples))
    ELSE packages

\* _get_package_list: check=True turns a non-zero exit of `go list` into a
\* CalledProcessError, which the handler answers with the empty list.
GetPackageList(go_list, config) ==
    IF go_list.returncode # 0 THEN <<>>
    ELSE WithoutExamples(ListedPackages(go_list.stdout), config)

(***************************************************************************)
(* main() and CodeAnalyzer.generate_report                                 *)
(*                                                                         *)
(* pc names the statement to execute next.  Each analysis step is one      *)
(* action: it runs its tool, parses the output and stores what the getter  *)
(* returns.  An exception no handler catches leaves main: the interpreter  *)
(* prints the traceback and exits with status 1.                           *)
(***************************************************************************)
AnalysisSteps ==
    <<"get_complexity_data", "get_cognitive_complexity", "get_static_analysis",
      "get_vet_analysis", "get_staticcheck_analysis", "get_security_analysis",
      "get_vulnerability_analysis", "get_code_smells", "get_deadcode_analysis",
      "get_architecture_analysis", "get_code_metrics">>

\* What a tool does when nothing is wrong in this run.
Nominal == IF env.findings THEN "findings" ELSE "empty"

\* The steps so far whose tool did something else.
Faults ==
    Cardinality({s \in DOMAIN results :
                    results[s].run \notin {Nominal, "skipped", "failed"}})

Allowed(run) == run.kind = Nominal \/ Faults < MaxFaults

Init ==
    /\ fn = "main"
    /\ args = <<>>
    /\ ret = Pending
    /\ pc = "check_required_tools"
    /\ env \in Environments
    /\ results = <<>>
    /\ report = <<>>
    /\ output_file = "unwritten"
    /\ exit_status = "none"
    /\ uncaught = "none"

\* A getter whose tool is started and left running: the run goes on to the
\* next statement before the getter has returned.
FinishUnawaited(step, value, run, next) ==
    /\ pc' = next
    /\ UNCHANGED <<env, results, report, output_file, exit_status, uncaught, harness>>

\* The getter returns value; run tells how its tool went.
Finish(step, value, run, next) ==
    /\ results' = (step :> [value |-> value, run |-> run]) @@ results
    /\ pc' = next
    /\ UNCHANGED <<env, report, output_file, exit_status, uncaught, harness>>

\* An exception propagates out of generate_report and main.
Abort(exc) ==
    /\ pc' = "done"
    /\ uncaught' = exc
    /\ exit_status' = "1"
    /\ UNCHANGED <<env, results, report, output_file, harness>>

\* A pre-flight check that only reports the missing tools and lets the run go on.
CheckRequiredToolsAdvisory ==
    /\ pc = "check_required_tools"
    /\ pc' = "get_complexity_data"
    /\ UNCHANGED <<env, results, report, output_file, exit_status, uncaught, harness>>

\* main: if not analyzer.check_required_tools(): sys.exit(1)
CheckRequiredTools ==
    /\ pc = "check_required_tools"
    /\ IF env.tools = "installed"
       THEN pc' = "get_complexity_data" /\ exit_status' = exit_status
       ELSE pc' = "done" /\ exit_status' = "1"
    /\ UNCHANGED <<env, results, report, output_file, uncaught, harness>>

GetComplexityData ==
    /\ pc = "get_complexity_data"
    /\ \E run \in ToolRuns(GocycloFindings) :
          /\ Allowed(run)
          /\ IF run.kind = "oserror" THEN Abort("OSError")
             ELSE Finish("get_complexity_data", ParseComplexityOutput(run.stdout),
                         run.kind, "get_cognitive_complexity")

GetCognitiveComplexity ==
    /\ pc = "get_cognitive_complexity"
    /\ \E run \in ToolRuns(GocognitFindings) :
          /\ Allowed(run)
          /\ IF run.kind = "oserror" THEN Abort("OSError")
             ELSE LET entries == ParseGocognitOutput(run.stdout)
                  IN  Finish("get_cognitive_complexity",
                             IF DefaultConfig.exclude_test_files
                             THEN SelectSeq(entries, LAMBDA e : ~IsTestEntry(e))
                             ELSE entries,
                             run.kind, "get_static_analysis")

StrUnknownFlag == <<"u", "n", "k", "n", "o", "w", "n", " ", "f", "l", "a", "g">>
StrVersionMismatch == <<"c", "o", "n", "f", "i", "g", "u", "r", "a", "t", "i", "o", "n", " ", "f", "i", "l", "e", " ", "f", "o", "r", " ", "g", "o", "l", "a", "n", "g", "c", "i", "-", "l", "i", "n", "t", " ", "v", "2", " ", "w", "i", "t", "h", " ", "g", "o", "l", "a", "n", "g", "c", "i", "-", "l", "i", "n", "t", " ", "v", "1">>
StrVersionAdvice ==
    <<"V", "e", "r", "s", "i", "o", "n", " ", "m", "i", "s", "m", "a", "t", "c", "h", ":", " ", "U", "s", "i", "n", "g", " ", "g", "o", "l", "a", "n", "g", "c", "i", "-", "l", "i", "n", "t", " ", "v", "1", " ", "w", "i", "t", "h", " ", "v", "2", " ", "c", "o", "n", "f", "i", "g", ".", " ",
      "C", "o", "n", "s", "i", "d", "e", "r", " ", "u", "p", "g", "r", "a", "d", "i", "n", "g", " ", "g", "o", "l", "a", "n", "g", "c", "i", "-", "l", "i", "n", "t", " ", "o", "r", " ", "u", "p", "d", "a", "t", "i", "n", "g", " ", ".", "g", "o", "l", "a", "n", "g", "c", "i", ".", "y", "m", "l">>

\* The dict get_static_analysis returns for the result of golangci-lint
StaticAnalysisOf(result) ==
    LET issues == IF Strip(result.stdout) # <<>>
                  THEN ParseGolangciOutput(result.stdout) ELSE <<>>
        error_msg == IF Contains(Strip(result.stderr), StrVersionMismatch)
                     THEN StrVersionAdvice ELSE Strip(result.stderr)
    IN  [issues |-> issues, error |-> error_msg,
         success |-> (Len(issues) = 0 /\ error_msg = <<>>)]

\* golangci-lint runs with --no-config and, when that flag is unknown, once
\* more without it; the second run is taken to be the nominal one.
GetStaticAnalysis ==
    /\ pc = "get_static_analysis"
    /\ \E first \in ToolRuns(GolangciFindings)
             \cup {Completed("nonzero", 3, <<>>, StrUnknownFlag)},
          second \in {r \in ToolRuns(GolangciFindings) : r.kind = Nominal} :
          /\ Allowed(first)
          /\ IF first.kind = "oserror" THEN Abort("OSError")
             ELSE LET result == IF first.returncode # 0
                                   /\ Contains(first.stderr, StrUnknownFlag)
                                THEN second ELSE first
                  IN  Finish("get_static_analysis", StaticAnalysisOf(result),
                             first.kind, "get_vet_analysis")

\* The getters that start with _get_package_list return [] without running
\* their tool when the list is empty.
GetVetAnalysis ==
    /\ pc = "get_vet_analysis"
    /\ IF GetPackageList(env.go_list, DefaultConfig) = <<>>
       THEN Finish("get_vet_analysis", <<>>, "skipped", "get_staticcheck_analysis")
       ELSE \E run \in ToolRuns(VetFindings) :
               /\ Allowed(run)
               /\ IF run.kind = "oserror" THEN Abort("OSError")
                  ELSE Finish("get_vet_analysis", ParseVetOutput(run.stderr),
                              run.kind, "get_staticcheck_analysis")

GetStaticcheckAnalysis ==
    /\ pc = "get_staticcheck_analysis"
    /\ IF GetPackageList(env.go_list, DefaultConfig) = <<>>
       THEN Finish("get_staticcheck_analysis", <<>>, "skipped", "get_security_analysis")
       ELSE \E run \in ToolRuns(StaticcheckFindings) :
               /\ Allowed(run)
               /\ IF run.kind = "oserror" THEN Abort("OSError")
                  ELSE Finish("get_staticcheck_analysis",
                              ParseStaticcheckOutput(run.stdout),
                              run.kind, "get_security_analysis")

\* if result.stdout.strip(): return self._parse_gosec_output(result.stdout)
GetSecurityAnalysis ==
    /\ pc = "get_security_analysis"
    /\ IF GetPackageList(env.go_list, DefaultConfig) = <<>>
       THEN Finish("get_security_analysis", <<>>, "skipped", "get_vulnerability_analysis")
       ELSE \E run \in GosecRuns :
               /\ Allowed(run)
               /\ IF run.kind = "oserror" THEN Abort("OSError")
                  ELSE LET parsed == IF run.stdout.blank THEN Return(<<>>)
                                     ELSE ParseGosecOutput(run.stdout, ProjectRoot)
                       IN  IF parsed.kind = "raise" THEN Abort(parsed.exc)
                           ELSE Finish("get_security_analysis", parsed.value,
                                       run.kind, "get_vulnerability_analysis")

GetVulnerabilityAnalysis ==
    /\ pc = "get_vulnerability_analysis"
    /\ IF GetPackageList(env.go_list, DefaultConfig) = <<>>
       THEN Finish("get_vulnerability_analysis", <<>>, "skipped", "get_code_smells")
       ELSE \E run \in ToolRuns(VulnerabilityFindings) :
               /\ Allowed(run)
               /\ IF run.kind = "oserror" THEN Abort("OSError")
                  ELSE Finish("get_vulnerability_analysis",
                              ParseGovulncheckOutput(run.stdout, run.stderr),
                              run.kind, "get_code_smells")

GetCodeSmells ==
    /\ pc = "get_code_smells"
    /\ IF GetPackageList(env.go_list, DefaultConfig) = <<>>
       THEN Finish("get_code_smells", <<>>, "skipped", "get_deadcode_analysis")
       ELSE \E run \in ToolRuns(GoconstFindings) :
               /\ Allowed(run)
               /\ IF run.kind = "oserror" THEN Abort("OSError")
                  ELSE Finish("get_code_smells", ParseGoconstOutput(run.stdout),
                              run.kind, "get_deadcode_analysis")

GetDeadcodeAnalysis ==
    /\ pc = "get_deadcode_analysis"
    /\ IF GetPackageList(env.go_list, DefaultConfig) = <<>>
       THEN Finish("get_deadcode_analysis", <<>>, "skipped", "get_architecture_analysis")
       ELSE \E run \in ToolRuns(DeadcodeFindings) :
               /\ Allowed(run)
               /\ IF run.kind = "oserror" THEN Abort("OSError")
                  ELSE Finish("get_deadcode_analysis",
                              FilterDeadcodeResults(ParseDeadcodeOutput(run.stdout),
                                                    DefaultConfig.deadcode),
                              run.kind, "get_architecture_analysis")

GetArchitectureAnalysis ==
    /\ pc = "get_architecture_analysis"
    /\ \E run \in ToolRuns(CleanarchFindings) :
          /\ Allowed(run)
          /\ IF run.kind = "oserror" THEN Abort("OSError")
             ELSE Finish("get_architecture_analysis",
                         ParseCleanarchOutput(run.stdout, run.stderr),
                         run.kind, "get_code_metrics")

StrError == <<"E", "r", "r", "o", "r">>
StrUnableToRunTests == <<"U", "n", "a", "b", "l", "e", " ", "t", "o", " ", "r", "u", "n", " ", "t", "e", "s", "t", "s">>

\* What the files of the project count to: _count_lines_of_code and the glob
\* of get_code_metrics.
ProjectFiles == [total_lines |-> 80, go_files |-> 6]

\* _count_packages
CountPackages(go_list, config) ==
    IF go_list.returncode # 0 THEN 0
    ELSE Len(WithoutExamples(ListedPackages(go_list.stdout), config))

\* _get_package_metrics: one entry per listed package, examples included
GetPackageMetrics(go_list) ==
    IF go_list.returncode # 0 THEN <<>>
    ELSE LET packages == ListedPackages(go_list.stdout)
         IN  [i \in 1..Len(packages) |-> PackageMetric(packages[i])]

CodeMetrics(coverage_entries) ==
    [total_lines |-> ProjectFiles.total_lines, go_files |-> ProjectFiles.go_files,
     packages |-> CountPackages(env.go_list, DefaultConfig),
     coverage_entries |-> coverage_entries,
     package_metrics |-> GetPackageMetrics(env.go_list)]

\* get_code_metrics; _get_test_coverage answers a failure of `go list` with
\* one entry that reports the error and runs no test for an empty list.
GetCodeMetrics ==
    /\ pc = "get_code_metrics"
    /\ IF env.go_list.returncode # 0
       THEN Finish("get_code_metrics",
                   CodeMetrics(<<[package |-> StrError, status |-> StrUnableToRunTests,
                                  coverage |-> StrNA, cached |-> FALSE]>>),
                   "failed", "_build_report")
       ELSE IF GetPackageList(env.go_list, DefaultConfig) = <<>>
       THEN Finish("get_code_metrics", CodeMetrics(<<>>), "skipped", "_build_report")
       ELSE \E run \in ToolRuns(GoTestFindings) :
               /\ Allowed(run)
               /\ IF run.kind = "oserror" THEN Abort("OSError")
                  ELSE Finish("get_code_metrics",
                              CodeMetrics(ParseCoverageOutput(run.stdout)),
                              run.kind, "_build_report")

\* _build_header: the title, the overview and the titles of the cyclomatic
\* section
BuildHeader ==
    <<Line("heading", "# Code Analysis Report"), Blank,
      Line("text", "*Generated automatically by make analyze-code*"), Blank,
      Line("heading", "## Overview"), Blank,
      Line("text", "This report provides comprehensive code analysis"), Blank,
      Line("heading", "## Cyclomatic Complexity Analysis"), Blank,
      Line("heading", "### Top 10 Most Complex Functions"), Blank>>

\* _build_guidelines_section: fixed text
BuildGuidelinesSection ==
    <<Blank, Line("heading", "## Complexity Guidelines"), Blank,
      Line("heading", "### Cyclomatic Complexity Scale"), Blank,
      Line("text", "| Range | Level | Icon | Description | Action Required |"),
      Line("heading", "### Recommendations"), Blank,
      Line("text", "Based on the analysis above:"),
      Line("heading", "### Refactoring Strategies"), Blank,
      Line("heading", "## Analysis Timestamp")>>

\* What datetime.now() may return when the footer is built.
Timestamps == {"2024-01-01 00:00:00", "2024-01-01 00:00:01"}

\* _build_footer
BuildFooter(timestamp) ==
    <<Blank,
      [k |-> "text", text |-> "**Generated:** {timestamp}", cells |-> [timestamp |-> timestamp]],
      Blank, Line("text", "---"), Blank,
      Line("text", "*To regenerate this report, run: make analyze-code*"),
      Line("text", "*Report location: {self.config.output_file}*")>>

Part(name, lines) == [name |-> name, lines |-> lines]

\* report_parts of _build_report, given the rendered security section
ReportParts(security, timestamp) ==
    <<Part("_build_header", BuildHeader),
      Part("_build_complexity_section",
           BuildComplexitySection(results["get_complexity_data"].value,
                                  DefaultConfig.report)),
      Part("_build_cognitive_complexity_section",
           BuildCognitiveComplexitySection(results["get_cognitive_complexity"].value)),
      Part("_build_static_analysis_section",
           BuildStaticAnalysisSection(results["get_static_analysis"].value)),
      Part("_build_vet_section", BuildVetSection(results["get_vet_analysis"].value)),
      Part("_build_staticcheck_section",
           BuildStaticcheckSection(results["get_staticcheck_analysis"].value)),
      Part("_build_security_section", security),
      Part("_build_vulnerability_section",
           BuildVulnerabilitySection(results["get_vulnerability_analysis"].value)),
      Part("_build_code_smells_section",
           BuildCodeSmellsSection(results["get_code_smells"].value)),
      Part("_build_deadcode_section",
           BuildDeadcodeSection(results["get_deadcode_analysis"].value)),
      Part("_build_architecture_section",
           BuildArchitectureSection(results["get_architecture_analysis"].value)),
      Part("_build_metrics_section",
           BuildMetricsSection(results["get_code_metrics"].value)),
      Part("_build_guidelines_section", BuildGuidelinesSection),
      Part("_build_footer", BuildFooter(timestamp))>>

\* An assembly that also dates the header.
BuildReportWithDatedHeader ==
    /\ pc = "_build_report"
    /\ LET security == BuildSecuritySection(results["get_security_analysis"].value)
       IN  IF security.kind = "raise" THEN Abort(security.exc)
           ELSE /\ \E now \in Timestamps :
                      report' = [ReportParts(security.value, now) EXCEPT
                                    ![1].lines = @ \o BuildFooter(now)]
                /\ pc' = "write"
                /\ UNCHANGED <<env, results, output_file, exit_status, uncaught, harness>>

\* report_content = self._build_report(...); the footer reads the clock
BuildReport ==
    /\ pc = "_build_report"
    /\ LET security == BuildSecuritySection(results["get_security_analysis"].value)
       IN  IF security.kind = "raise" THEN Abort(security.exc)
           ELSE /\ \E now \in Timestamps : report' = ReportParts(security.value, now)
                /\ pc' = "write"
                /\ UNCHANGED <<env, results, output_file, exit_status, uncaught, harness>>

\* The end of main without the test of what generate_report returned.
WriteReportResultIgnored ==
    /\ pc = "write"
    /\ \E written \in BOOLEAN : output_file' = IF written THEN "written" ELSE "failed"
    /\ exit_status' = "0"
    /\ pc' = "done"
    /\ UNCHANGED <<env, results, report, uncaught, harness>>

\* The try block of generate_report and the end of main: creating the parent
\* directory or writing the file may raise IOError, which makes
\* generate_report return False and main exit with status 1.
WriteReport ==
    /\ pc = "write"
    /\ \E written \in BOOLEAN :
          /\ output_file' = IF written THEN "written" ELSE "failed"
          /\ exit_status' = IF written THEN "0" ELSE "1"
    /\ pc' = "done"
    /\ UNCHANGED <<env, results, report, uncaught, harness>>

Next ==
    \/ CheckRequiredTools
    \/ GetComplexityData
    \/ GetCognitiveComplexity
    \/ GetStaticAnalysis
    \/ GetVetAnalysis
    \/ GetStaticcheckAnalysis
    \/ GetSecurityAnalysis
    \/ GetVulnerabilityAnalysis
    \/ GetCodeSmells
    \/ GetDeadcodeAnalysis
    \/ GetArchitectureAnalysis
    \/ GetCodeMetrics
    \/ BuildReport
    \/ WriteReport

Spec == Init /\ [][Next]_vars

(***************************************************************************)
(* Reading a run back                                                      *)
(***************************************************************************)
\* The step that feeds each analysis section of the report.
SectionOfStep ==
    [get_complexity_data |-> "_build_complexity_section",
     get_cognitive_complexity |-> "_build_cognitive_complexity_section",
     get_static_analysis |-> "_build_static_analysis_section",
     get_vet_analysis |-> "_build_vet_section",
     get_staticcheck_analysis |-> "_build_staticcheck_section",
     get_security_analysis |-> "_build_security_section",
     get_vulnerability_analysis |-> "_build_vulnerability_section",
     get_code_smells |-> "_build_code_smells_section",
     get_deadcode_analysis |-> "_build_deadcode_section",
     get_architecture_analysis |-> "_build_architecture_section",
     get_code_metrics |-> "_build_metrics_section"]

StepNames == {AnalysisSteps[i] : i \in 1..Len(AnalysisSteps)}

PartLines(name) ==
    report[CHOOSE i \in 1..Len(report) : report[i].name = name].lines

HasLine(lines, kind) == \E i \in 1..Len(lines) : lines[i].k = kind

\* The result set of a step: the issues of the static analysis, the coverage
\* entries of the metrics, the list itself for the others.
ResultSet(step) ==
    CASE step = "get_static_analysis" -> results[step].value.issues
      [] step = "get_code_metrics" -> results[step].value.coverage_entries
      [] OTHER -> results[step].value

\* The tool of the step printed nothing, exited with a non-zero code, printed
\* unparseable text, or (for the metrics) `go list` failed.
ToolFailed(step) ==
    step \in DOMAIN results
        /\ results[step].run \in {"empty", "nonzero", "garbage", "unexpected", "failed"}

\* The tool of the step was not run, or the invocation it depends on failed.
ToolNotRun(step) ==
    step \in DOMAIN results /\ results[step].run \in {"skipped", "failed"}

\* C2: with all required tools installed, an analysis step whose tool returns
\* empty output, a non-zero exit code or unparseable text, or cannot be
\* executed, yields an empty result set, and the run still goes on through
\* the later steps and the report assembly to the write.
C2_ToolFailureYieldsEmptyAndRunContinues ==
    env.tools = "installed" =>
        /\ \A step \in StepNames : ToolFailed(step) => ResultSet(step) = <<>>
        /\ pc = "done" => output_file # "unwritten"

\* C8: in the assembled report the section of a step whose tool was not run
\* or whose invocation errored has no all-clear sentence and has a warning
\* marker.
C8_NotRunSectionShowsWarningNotAllClear ==
    report # <<>> =>
        \A step \in StepNames :
            ToolNotRun(step) =>
                /\ ~HasLine(PartLines(SectionOfStep[step]), "allclear")
                /\ HasLine(PartLines(SectionOfStep[step]), "warning")

(***************************************************************************)
(* The security table                                                      *)
(***************************************************************************)
\* The bucket of a severity, compared without regard to case: 1 for HIGH,
\* 2 for MEDIUM, 3 for LOW, 0 for anything else.
SeverityBucket(severity) ==
    CASE Lower(severity) = <<"h", "i", "g", "h">> -> 1
      [] Lower(severity) = <<"m", "e", "d", "i", "u", "m">> -> 2
      [] Lower(severity) = <<"l", "o", "w">> -> 3
      [] OTHER -> 0

InBucket(issues, b) == SelectSeq(issues, LAMBDA i : SeverityBucket(i.severity.s) = b)

SeveritiesOf(issues) == [i \in 1..Len(issues) |-> issues[i].severity.s]
SeveritiesShown(lines) ==
    LET rows == DataRows(lines) IN [i \in 1..Len(rows) |-> rows[i].cells.severity]

\* C11: the rows of the security table are the HIGH issues, then the MEDIUM
\* issues, then the LOW issues, the severity compared case-insensitively and
\* each bucket in input order; an issue of any other severity has no row.
C11_SecurityRowsAreBucketedInOrder ==
    Rendered("_build_security_section") =>
        LET issues == args.security_issues
        IN  /\ SeveritiesShown(ret.value)
                 = SeveritiesOf(InBucket(issues, 1) \o InBucket(issues, 2) \o InBucket(issues, 3))
            /\ \A i \in 1..Len(DataRows(ret.value)) :
                   SeverityBucket(DataRows(ret.value)[i].cells.severity) \in 1..3

\* A LOW issue, an UNKNOWN one and a lower-case high one went in, in that
\* order: the table has the high one, then the LOW one, and no third row.
C11_Witness ==
    /\ Rendered("_build_security_section")
    /\ SeveritiesOf(args.security_issues) = <<StrLOW, StrUNKNOWN, <<"h", "i", "g", "h">>>>
    /\ SeveritiesShown(ret.value) = <<<<"h", "i", "g", "h">>, StrLOW>>

(***************************************************************************)
(* The two complexity scales, read from the rendered tables                *)
(***************************************************************************)
MaxComplexity == 30

\* One function of each complexity from 0 to MaxComplexity goes through the
\* cyclomatic section, under the default threshold and under a low one that
\* lets every tier into the above-threshold table, and through the cognitive
\* section.
InitTiers ==
    /\ PipelineIdle
    /\ ret = Pending
    /\ \E c \in 0..MaxComplexity :
          \/ /\ fn = "_build_complexity_section"
             /\ args \in [complexity_data : {<<ComplexityEntry(c, <<"f">>)>>},
                          config : [top_functions : {10}, complexity_threshold : {15, 5}]]
          \/ /\ fn = "_build_cognitive_complexity_section"
             /\ args \in [cognitive_complexity : {<<ComplexityEntry(c, <<"f">>)>>},
                          config : {DefaultReportConfig}]

NextTiers == CallBuildComplexity \/ CallBuildCognitive

SpecTiers == InitTiers /\ [][NextTiers]_vars

\* The display tier as the documentation states it.
DisplayTier(c) ==
    CASE c <= 10 -> "check"
      [] c \in 11..15 -> "warning"
      [] c \in 16..25 -> "orange_diamond"
      [] c >= 26 -> "red_circle"

\* The priority tier as the documentation states it.
PriorityTier(c) ==
    CASE c < 16 -> "check Low"
      [] c \in 16..20 -> "warning Medium"
      [] c \in 21..25 -> "orange_diamond High"
      [] c >= 26 -> "red_circle Critical"

HasDisplayTier(rows) ==
    \A i \in 1..Len(rows) : rows[i].cells.icon = DisplayTier(rows[i].cells.complexity)

\* C12: every row of the top-N table, of the above-threshold table and of the
\* cognitive table carries the display marker of its complexity: simple up to
\* 10, moderate from 11 to 15, high from 16 to 25, very high from 26.
C12_DisplayTierBoundaries ==
    /\ Rendered("_build_complexity_section") => HasDisplayTier(DataRows(ret.value))
    /\ Rendered("_build_cognitive_complexity_section") => HasDisplayTier(DataRows(ret.value))

\* A function of complexity 25 is shown in the cognitive table with the high
\* marker.
C12_Witness ==
    /\ Rendered("_build_cognitive_complexity_section")
    /\ args.cognitive_complexity[1].complexity = 25
    /\ Len(DataRows(ret.value)) = 1
    /\ DataRows(ret.value)[1].cells.icon = "orange_diamond"

\* C13: every row of the above-threshold table carries the priority of its
\* complexity: low below 16, medium from 16 to 20, high from 21 to 25,
\* critical from 26; the scale is not the display scale, a complexity from 11
\* to 15 being moderate on one and low on the other.
C13_PriorityTierBoundaries ==
    Rendered("_build_complexity_section") =>
        LET rows == DataRows(AttentionPart(ret.value))
        IN  \A i \in 1..Len(rows) :
                LET c == rows[i].cells.complexity
                IN  /\ rows[i].cells.priority = PriorityTier(c)
                    /\ c \in 11..15 =>
                           rows[i].cells.icon = "warning" /\ rows[i].cells.priority = "check Low"

\* A function of complexity 21 is listed above the default threshold with the
\* high priority.
C13_Witness ==
    /\ Rendered("_build_complexity_section")
    /\ args.config.complexity_threshold = 15
    /\ args.complexity_data[1].complexity = 21
    /\ Len(DataRows(AttentionPart(ret.value))) = 1
    /\ DataRows(AttentionPart(ret.value))[1].cells.priority = "orange_diamond High"

(***************************************************************************)
(* The order of the sections of the assembled report                      *)
(***************************************************************************)
\* '\n'.join(report_parts): the lines of the report from first to last
ReportLines == Concat([i \in 1..Len(report) |-> report[i].lines])

\* The line that opens each section, in the documented order: header,
\* cyclomatic top-N, cyclomatic above-threshold, cognitive top-N, static
\* analysis, vet, staticcheck, security, vulnerability, code smells, dead
\* code, architecture, metrics, guidelines, footer.
SectionOpeners ==
    <<"# Code Analysis Report",
      "### Top 10 Most Complex Functions",
      "### Functions Requiring Attention (Complexity > 15)",
      "### Top 10 Most Cognitively Complex Functions",
      "## Static Analysis Results",
      "## Go Vet Analysis",
      "## Staticcheck Analysis",
      "## Security Analysis Results",
      "## Vulnerability Analysis (govulncheck)",
      "## Code Quality Issues",
      "## Dead Code Analysis",
      "## Architecture Analysis",
      "## Code Metrics",
      "## Complexity Guidelines",
      "**Generated:** {timestamp}">>

IsOpener(line) ==
    /\ line.k \in {"heading", "text"}
    /\ \E i \in 1..Len(SectionOpeners) : SectionOpeners[i] = line.text

OpenersOf(lines) ==
    LET found == SelectSeq(lines, IsOpener) IN [i \in 1..Len(found) |-> found[i].text]

\* C14: whatever the tools returned, the assembled report has the opening
\* line of every section exactly once and in the documented order.
C14_EverySectionOnceInFixedOrder ==
    report # <<>> => OpenersOf(ReportLines) = SectionOpeners

\* A report was assembled from a run in which every analysis returned nothing.
C14_Witness ==
    /\ report # <<>>
    /\ \A step \in StepNames : ResultSet(step) = <<>>
    /\ OpenersOf(ReportLines) = SectionOpeners

(***************************************************************************)
(* How a run ends                                                          *)
(***************************************************************************)
\* C15: when a required tool is missing, the run goes from the pre-flight
\* check straight to its end with exit status 1: no analysis has returned or
\* raised, no report has been assembled and the output file is untouched.
\* An analysis, the assembly or the write is only ever under way or behind
\* when all required tools are installed.
C15_MissingToolStopsBeforeAnyAnalysis ==
    /\ env.tools = "missing" =>
          /\ pc \in {"check_required_tools", "done"}
          /\ results = <<>> /\ uncaught = "none"
          /\ report = <<>>
          /\ output_file = "unwritten"
          /\ pc = "done" => exit_status = "1"
    /\ (pc \notin {"check_required_tools", "done"} \/ results # <<>> \/ uncaught # "none")
          => env.tools = "installed"

\* The run with a missing tool has ended.
C15_Witness ==
    /\ env.tools = "missing"
    /\ pc = "done"
    /\ exit_status = "1"
    /\ results = <<>> /\ report = <<>> /\ output_file = "unwritten"

\* C16: a finished run has exit status 0 exactly when the tools were all
\* installed and the report file was written; a failed write ends the run
\* with exit status 1, and the write attempt is the last step of the run, so
\* that it is never made again.
C16_ExitStatusAndSingleWrite ==
    /\ pc = "done" =>
          (exit_status = "0" <=> (env.tools = "installed" /\ output_file = "written"))
    /\ output_file = "failed" => exit_status = "1"
    /\ output_file # "unwritten" => pc = "done" /\ report # <<>>

\* The write failed and the run ended with status 1.
C16_Witness ==
    /\ pc = "done"
    /\ env.tools = "installed"
    /\ output_file = "failed"
    /\ exit_status = "1"

(***************************************************************************)
(* Two runs on the same tool outputs                                       *)
(***************************************************************************)
\* main is started again in the same project with the same configuration,
\* after a run that wrote its report: ret keeps what the first run got from
\* its tools and the report it assembled.
Rerun ==
    /\ pc = "done"
    /\ output_file = "written"
    /\ ret.kind = "pending"
    /\ ret' = Return([results |-> results, report |-> report])
    /\ pc' = "check_required_tools"
    /\ results' = <<>>
    /\ report' = <<>>
    /\ output_file' = "unwritten"
    /\ exit_status' = "none"
    /\ UNCHANGED <<fn, args, env, uncaught>>

\* In the second run every tool that could be executed in the first one is
\* executed again and prints what it printed then: its run goes the same way
\* and its getter returns the same value.
SameToolOutputs ==
    /\ uncaught = "none"
    /\ \A step \in DOMAIN results : results[step] = ret.value.results[step]

NextTwoRuns ==
    \/ ret.kind = "pending" /\ Next
    \/ ret.kind = "return" /\ Next /\ SameToolOutputs'
    \/ Rerun

SpecTwoRuns == Init /\ [][NextTwoRuns]_vars

\* The lines of a footer that do not carry the timestamp.
WithoutTimestamp(lines) ==
    SelectSeq(lines, LAMBDA l : l.text # "**Generated:** {timestamp}")

TimestampOf(parts) ==
    LET lines == parts[Len(parts)].lines
        at == CHOOSE i \in 1..Len(lines) : lines[i].text = "**Generated:** {timestamp}"
    IN  lines[at].cells.timestamp

PrintedLines(output) == Split(output, <<"\n">>)

\* The line has the form <int> <ident> <ident> <path>:<int>:<int>.
HasCyclomaticForm(line) == ReMatch(GocycloPattern, line).ok

\* The entry the documentation gives for a line of that form.
EntryOfLine(line) ==
    LET match == ReMatch(GocycloPattern, line)
    IN  [complexity |-> DigitsToInt(match.g[1]), package |-> match.g[2],
         function |-> match.g[3], file |-> match.g[4], line |-> DigitsToInt(match.g[5])]

\* C18: the cyclomatic parser returns one entry for each printed line of the
\* form <int> <ident> <ident> <path>:<int>:<int>, made of the first integer,
\* the two identifiers, the path and the integer after the path, and nothing
\* for any other line; a text without such a line gives the empty sequence.
C18_CyclomaticGrammar ==
    (fn = "_parse_complexity_output" /\ ret.kind = "return") =>
        LET formed == SelectSeq(PrintedLines(args.output), HasCyclomaticForm)
        IN  /\ Len(ret.value) = Len(formed)
            /\ \A i \in 1..Len(formed) :
                   \E j \in 1..Len(ret.value) : ret.value[j] = EntryOfLine(formed[i])

(***************************************************************************)
(* The coverage parser on its own                                          *)
(***************************************************************************)
\* Lines of go test -cover: passed with coverage, passed from the cache,
\* passed without a coverage figure, no ok but a coverage figure, no test
\* files, an ok line behind a blank, ok run into the coverage word, and a
\* coverage word without a percentage.
CoverageInputLines ==
    {<<"o", "k", " ", "m", "/", "a", " ", "c", "o", "v", "e", "r", "a", "g", "e", ":", " ", "5", "0", ".", "0", "%">>,
     <<"o", "k", " ", "m", "/", "b", " ", "(", "c", "a", "c", "h", "e", "d", ")", " ", "c", "o", "v", "e", "r", "a", "g", "e", ":", " ", "7", "%">>,
     <<"o", "k", " ", "m", "/", "a">>,
     <<"m", "/", "c", " ", "c", "o", "v", "e", "r", "a", "g", "e", ":", " ", "0", ".", "0", "%">>,
     <<"?", " ", "m", "/", "d", " ", "[", "n", "o", " ", "t", "e", "s", "t", " ", "f", "i", "l", "e", "s", "]">>,
     <<" ", "o", "k", " ", "m", "/", "a">>,
     <<"o", "k", "c", "o", "v", "e", "r", "a", "g", "e", ":">>,
     <<"m", "/", "c", " ", "c", "o", "v", "e", "r", "a", "g", "e", ":", " ", "n", "o", "n", "e">>}

CoverageOutputs == {JoinLines(ls) : ls \in SeqUpTo(CoverageInputLines, MaxLines)}

InitCoverage ==
    /\ PipelineIdle
    /\ fn = "_parse_coverage_output"
    /\ args \in [output : CoverageOutputs]
    /\ ret = Pending

CallParseCoverage ==
    /\ fn = "_parse_coverage_output"
    /\ ret = Pending
    /\ ret' = Return(ParseCoverageOutput(args.output))
    /\ UNCHANGED <<fn, args, pipeline>>

NextCoverage == CallParseCoverage

SpecCoverage == InitCoverage /\ [][NextCoverage]_vars

\* What the documentation gives for one printed line.
DocumentedCoverageEntry(line) ==
    IF Strip(line) = <<>> THEN <<>>
    ELSE IF StartsWith(line, StrOk) /\ Len(SplitWs(line)) >= 2
    THEN <<[package |-> SplitWs(line)[2],
            status |-> IF Contains(line, StrCachedMark) THEN StrOkCached ELSE StrOk,
            coverage |-> CoverageOf(line),
            cached |-> Contains(line, StrCachedMark)]>>
    ELSE IF Contains(line, StrCoverageColon)
    THEN <<[package |-> SplitWs(line)[1], status |-> StrDash,
            coverage |-> CoverageOf(line), cached |-> FALSE]>>
    ELSE <<>>

\* C19: the coverage parser returns, line by line, the entry of each
\* non-blank line: for a line beginning with ok and of at least two tokens
\* the second token as package, cached iff the line has (cached), status
\* ok (cached) or ok; for any other line with coverage: the first token as
\* package and status -; the coverage is the percentage after coverage: or
\* N/A; every other line gives nothing.
C19_CoverageLineMapping ==
    (fn = "_parse_coverage_output" /\ ret.kind = "return") =>
        ret.value = Concat([i \in 1..Len(PrintedLines(args.output)) |->
                               DocumentedCoverageEntry(PrintedLines(args.output)[i])])

(***************************************************************************)
(* The status of the coverage entries of a run                             *)
(***************************************************************************)
StrErrorStatus == <<"e", "r", "r", "o", "r">>

\* C20: in an assembled report every coverage entry, from the coverage
\* parser or from the failure path of the coverage step, has one of the
\* statuses ok, ok (cached), - and error.
C20_CoverageStatusIsOneOfFour ==
    report # <<>> =>
        LET entries == results["get_code_metrics"].value.coverage_entries
        IN  \A i \in 1..Len(entries) :
                entries[i].status \in {StrOk, StrOkCached, StrDash, StrErrorStatus}

(***************************************************************************)
(* The vulnerability parser on its own                                     *)
(***************************************************************************)
\* Lines of govulncheck: two that start a finding, two that do not, and an
\* empty one.
VulnerabilityInputLines ==
    {<<"C", "V", "E", "-", "1">>,
     <<"a", " ", "V", "u", "l", "n", "e", "r", "a", "b", "i", "l", "i", "t", "y">>,
     <<"x">>,
     <<"y">>,
     <<>>}

VulnerabilityOutputs ==
    {JoinLines(ls) : ls \in SeqUpTo(VulnerabilityInputLines, MaxLines)}

InitVulnerability ==
    /\ PipelineIdle
    /\ fn = "_parse_govulncheck_output"
    /\ args \in [stdout : VulnerabilityOutputs, stderr : {<<>>, <<"C", "V", "E", "-", "2">>}]
    /\ ret = Pending

CallParseGovulncheck ==
    /\ fn = "_parse_govulncheck_output"
    /\ ret = Pending
    /\ ret' = Return(ParseGovulncheckOutput(args.stdout, args.stderr))
    /\ UNCHANGED <<fn, args, pipeline>>

NextVulnerability == CallParseGovulncheck

SpecVulnerability == InitVulnerability /\ [][NextVulnerability]_vars

\* The lines of a text: a newline ends a line, so that a text ending with a
\* newline has no further empty line after it.
TextLines(text) ==
    LET pieces == Split(text, <<"\n">>)
    IN  IF text = <<>> THEN <<>>
        ELSE IF pieces[Len(pieces)] = <<>> THEN SubSeq(pieces, 1, Len(pieces) - 1)
        ELSE pieces

StartsFinding(line) ==
    Contains(Lower(line), StrVulnerability) \/ Contains(line, StrCVE)

\* C21: the vulnerability parser returns one finding for each line of the
\* tool's text that contains vulnerability (in any case) or CVE-, in line
\* order, also for a line that is a detail of an earlier finding; the details
\* of a finding are the lines right after its line: two when at least two
\* follow, else the one or none that remain, whatever they contain.
C21_OneFindingPerMarkedLineWithTwoDetails ==
    (fn = "_parse_govulncheck_output" /\ ret.kind = "return") =>
        LET lines == TextLines(args.stdout \o args.stderr)
            marked == SelectSeq([i \in 1..Len(lines) |-> i],
                                LAMBDA i : StartsFinding(lines[i]))
        IN  /\ Len(ret.value) = Len(marked)
            /\ \A k \in 1..Len(marked) :
                   /\ k <= Len(ret.value)
                   /\ ret.value[k].message = Strip(lines[marked[k]])
                   /\ ret.value[k].details
                          = SubSeq(lines, marked[k] + 1, Min({marked[k] + 2, Len(lines)}))

(***************************************************************************)
(* The lint, vet and staticcheck parsers on their own                      *)
(***************************************************************************)
\* Issue lines without and with a rule in parentheses, and a line that is
\* no issue.
IssueInputLines ==
    {<<"a", ".", "g", "o", ":", "3", ":", "1", ":", " ", "m", "s", "g">>,
     <<"a", ".", "g", "o", ":", "3", ":", "1", ":", " ", "m", "s", "g", " ", "(", "S", "A", "1", ")">>,
     <<".", "/", "b", ".", "g", "o", ":", "4", ":", "2", ":", " ", "b", "a", "r", " ", "(", "r", "2", ")">>,
     <<"o", "k">>}

IssueOutputs == {JoinLines(ls) : ls \in SeqUpTo(IssueInputLines, MaxLines)}

InitIssues ==
    /\ PipelineIdle
    /\ fn \in {"_parse_golangci_output", "_parse_vet_output", "_parse_staticcheck_output"}
    /\ args \in [output : IssueOutputs]
    /\ ret = Pending

CallParseGolangci ==
    /\ fn = "_parse_golangci_output"
    /\ ret = Pending
    /\ ret' = Return(ParseGolangciOutput(args.output))
    /\ UNCHANGED <<fn, args, pipeline>>

CallParseVet ==
    /\ fn = "_parse_vet_output"
    /\ ret = Pending
    /\ ret' = Return(ParseVetOutput(args.output))
    /\ UNCHANGED <<fn, args, pipeline>>

CallParseStaticcheck ==
    /\ fn = "_parse_staticcheck_output"
    /\ ret = Pending
    /\ ret' = Return(ParseStaticcheckOutput(args.output))
    /\ UNCHANGED <<fn, args, pipeline>>

NextIssues == CallParseGolangci \/ CallParseVet \/ CallParseStaticcheck

SpecIssues == InitIssues /\ [][NextIssues]_vars

\* The line has the form <path>:<int>:<int>: <message>, the message being
\* all that follows, a rule in parentheses included.
HasIssueForm(line) == ReMatch(VetPattern, line).ok

\* The content of the parentheses that end the line, <<>> when the line does
\* not end with a blank and a group in parentheses.
RuleGroupOf(line) ==
    LET opens == {i \in 2..Len(line) : line[i] = "(" /\ line[i - 1] = " "}
    IN  IF line # <<>> /\ line[Len(line)] = ")" /\ opens # {}
        THEN SubSeq(line, Max(opens) + 1, Len(line) - 1)
        ELSE <<>>

\* The field in which each parser keeps the rule.
RuleFieldOf(entry) ==
    IF "rule" \in DOMAIN entry THEN entry.rule
    ELSE IF "linter" \in DOMAIN entry THEN entry.linter
    ELSE <<>>

\* C22: each of the lint, vet and staticcheck parsers returns one entry for
\* every line of the form <path>:<int>:<int>: <message>, with or without a
\* rule in parentheses at its end; with it, the rule field of the entry is
\* what the parentheses hold; without it, the rule of a staticcheck entry is
\* staticcheck and a vet entry has no rule field.
C22_RuleGroupIsOptional ==
    (fn \in {"_parse_golangci_output", "_parse_vet_output", "_parse_staticcheck_output"}
         /\ ret.kind = "return") =>
        LET formed == SelectSeq(PrintedLines(args.output), HasIssueForm)
        IN  /\ Len(ret.value) = Len(formed)
            /\ \A k \in 1..Len(formed) :
                   LET group == RuleGroupOf(formed[k])
                       entry == ret.value[k]
                   IN  IF group # <<>> THEN RuleFieldOf(entry) = group
                       ELSE IF fn = "_parse_staticcheck_output"
                            THEN entry.rule = StrStaticcheck
                       ELSE fn = "_parse_vet_output" => "rule" \notin DOMAIN entry

(***************************************************************************)
(* The fields of the complexity entries                                    *)
(***************************************************************************)
\* Lines in the cyclomatic form (with a column) and in the cognitive form
\* (without), with positive numbers and with zeros, and a line in neither.
ComplexityFieldLines ==
    {<<"7", " ", "m", "a", "i", "n", " ", "m", "a", "i", "n", " ", "m", "a", "i", "n", ".", "g", "o", ":", "5", ":", "1">>,
     <<"7", " ", "m", "a", "i", "n", " ", "m", "a", "i", "n", " ", "m", "a", "i", "n", ".", "g", "o", ":", "5">>,
     <<"0", " ", "p", " ", "f", " ", "a", ".", "g", "o", ":", "0", ":", "1">>,
     <<"0", " ", "p", " ", "f", " ", "a", ".", "g", "o", ":", "0">>,
     <<"x">>}

InitComplexityFields ==
    /\ PipelineIdle
    /\ fn \in {"_parse_complexity_output", "_parse_gocognit_output"}
    /\ args \in [output : {JoinLines(ls) : ls \in SeqUpTo(ComplexityFieldLines, MaxLines)}]
    /\ ret = Pending

SpecComplexityFields == InitComplexityFields /\ [][NextComplexity]_vars

\* C23: every entry the cyclomatic or the cognitive parser returns, whatever
\* the text, has a complexity of at least 1 and a line of at least 1.
C23_ComplexityAndLineArePositive ==
    ComplexityReturned =>
        \A i \in 1..Len(ret.value) :
            ret.value[i].complexity >= 1 /\ ret.value[i].line >= 1

\* The line has the form <int> <ident> <ident> <path>:<int>.
HasCognitiveForm(line) == ReMatch(GocognitPattern, line).ok

\* The text ends with a colon and an integer.
EndsWithColonInt(cs) ==
    \E i \in 1..(Len(cs) - 1) :
        cs[i] = ":" /\ \A j \in (i + 1)..Len(cs) : cs[j] \in Digits

\* C26: the cognitive parser returns one entry for each line of the form
\* <int> <ident> <ident> <path>:<int> and none for a line of the cyclomatic
\* form, which carries a column after the line number; no entry it returns
\* has a file that ends with a colon and an integer.
C26_CognitiveParserRejectsColumn ==
    (fn = "_parse_gocognit_output" /\ ret.kind = "return") =>
        LET lines == PrintedLines(args.output)
            accepted == SelectSeq(lines, LAMBDA l : HasCognitiveForm(l) /\ ~HasCyclomaticForm(l))
        IN  /\ Len(ret.value) = Len(accepted)
            /\ \A i \in 1..Len(ret.value) : ~EndsWithColonInt(ret.value[i].file)

(***************************************************************************)
(* The file path of a security issue                                       *)
(***************************************************************************)
\* The path is absolute and lies under the root directory: the root, a
\* separator, and the path within the project.
IsUnderRoot(file_path, project_root) ==
    /\ StartsWith(file_path, <<"/">>)
    /\ StartsWith(file_path, project_root \o <<"/">>)

\* The path relative to the root, without a leading separator.
RelativeToRoot(file_path, project_root) ==
    LStripChars(SubSeq(file_path, Len(project_root) + 1, Len(file_path)), {"/"})

\* The issue objects of the document that the loop of the parser went
\* through: the list under Issues when every issue of it is an object.
IssueObjects ==
    LET doc == args.output.value
        list == IF doc.t = "dict" THEN DictGet(doc, StrIssues, PyNone) ELSE PyNone
    IN  IF list.t = "list" /\ \A i \in 1..Len(list.xs) : list.xs[i].t = "dict"
        THEN list.xs ELSE <<>>

\* C24: the security parser stores the file of an issue relative to the
\* project root, without a leading separator, when the file is an absolute
\* path under the root directory, and unchanged in every other case, also
\* when it is an absolute path in another directory whose name begins with
\* the text of the root.
C24_FileIsRelativeOnlyUnderRoot ==
    (fn = "_parse_gosec_output" /\ ret.kind = "return" /\ args.output.is_json) =>
        \A i \in 1..Min({Len(ret.value), Len(IssueObjects)}) :
            LET file_path == DictGet(IssueObjects[i], StrFile, PyStr(<<>>)).s
            IN  ret.value[i].file
                    = IF IsUnderRoot(file_path, args.project_root)
                      THEN RelativeToRoot(file_path, args.project_root)
                      ELSE file_path

(***************************************************************************)
(* The order of the stages of a run                                        *)
(***************************************************************************)
\* The first n analysis steps.
FirstSteps(n) == {AnalysisSteps[i] : i \in 1..n}

\* The analysis steps that have returned are the first ones of the fixed
\* order, and the step about to be issued is the one right after them.
StepsReturnedInOrder ==
    /\ \E n \in 0..Len(AnalysisSteps) : DOMAIN results = FirstSteps(n)
    /\ \A i \in 1..Len(AnalysisSteps) :
          pc = AnalysisSteps[i] => DOMAIN results = FirstSteps(i - 1)

\* The assembly is under way or behind only when all analysis steps have
\* returned, and the write only when the assembly has finished.
StagesInDependencyOrder ==
    /\ (pc \in {"_build_report", "write"} \/ report # <<>>)
          => DOMAIN results = FirstSteps(Len(AnalysisSteps))
    /\ (pc = "write" \/ output_file # "unwritten") => report # <<>>

\* One step lets at most one analysis return, never changes what an earlier
\* analysis returned, assembles the report at most once and attempts the
\* write at most once.
OneStageAtATime ==
    /\ Cardinality(DOMAIN results') <= Cardinality(DOMAIN results) + 1
    /\ \A s \in DOMAIN results : s \in DOMAIN results' /\ results'[s] = results[s]
    /\ report # <<>> => report' = report
    /\ output_file # "unwritten" => output_file' = output_file

\* C25: within one run the analysis steps return one at a time in their
\* fixed order, each before the next is issued; the assembly of the report
\* starts only after all eleven have returned, the write only after the
\* assembly has finished, and the write is attempted at most once.
C25_StagesAreSequentialAndOrdered ==
    /\ [](StepsReturnedInOrder /\ StagesInDependencyOrder)
    /\ [][OneStageAtATime]_vars

\* A run that went through the eleven analyses, the assembly and the write.
C25_Witness ==
    /\ pc = "done"
    /\ Len(AnalysisSteps) = 11
    /\ DOMAIN results = FirstSteps(11)
    /\ report # <<>>
    /\ output_file = "written"

(***************************************************************************)
(* Packages that share a short name                                        *)
(***************************************************************************)
\* The coverage entries of a full package path.
EntriesOfPath(entries, full_package) ==
    {j \in 1..Len(entries) : entries[j].package = full_package}

\* Two package metrics have the same short name and different full paths,
\* and each of the two has one coverage entry of its own full path.
SharedShortName(metrics) ==
    \E i, j \in 1..Len(metrics.package_metrics) :
        LET p == metrics.package_metrics[i]
            q == metrics.package_metrics[j]
        IN  /\ p.package = q.package
            /\ p.full_package # q.full_package
            /\ Cardinality(EntriesOfPath(metrics.coverage_entries, p.full_package)) = 1
            /\ Cardinality(EntriesOfPath(metrics.coverage_entries, q.full_package)) = 1

\* C27: in the package-details table, when two package metrics have the same
\* short name, different full paths and a coverage entry each, every row of
\* a package that has a coverage entry of its own full path shows the
\* coverage of that entry, never the coverage of another package.
C27_RowShowsCoverageOfItsOwnPath ==
    (Rendered("_build_metrics_section") /\ SharedShortName(args.metrics)) =>
        LET rows == DataRows(PackagePart(ret.value))
            entries == args.metrics.coverage_entries
        IN  \A i \in 1..Len(rows) :
                LET own == EntriesOfPath(entries, args.metrics.package_metrics[i].full_package)
                IN  Cardinality(own) = 1 =>
                        \A j \in own : rows[i].cells.coverage = entries[j].coverage

(***************************************************************************)
(* The count in the heading of the security table                          *)
(***************************************************************************)
\* The lines that announce the number of security issues.
SecurityCountLines(lines) ==
    SelectSeq(lines, LAMBDA l : l.k = "heading" /\ l.text = "### Security Issues Found:")

\* C28: whenever the security section is rendered as a table, the number in
\* its heading "Security Issues Found: N" is the number of data rows under
\* the heading.
C28_HeadingCountsTheRows ==
    Rendered("_build_security_section") =>
        \A i \in 1..Len(SecurityCountLines(ret.value)) :
            SecurityCountLines(ret.value)[i].cells.count = Len(DataRows(ret.value))

====
